---- MODULE Spec2Model ----
(***************************************************************************)
(* Verinode contracts as state machines: the atomic swap program          *)
(* (contracts/src/atomicSwap.rs), the chain verifier program               *)
(* (contracts/src/chainVerifier.rs), the message passing program           *)
(* (contracts/src/messagePassing.rs), the bridge program                   *)
(* (contracts/src/crossChainBridge.rs), the Verinode proof contract        *)
(* (contracts/src/lib.rs) and the bridge contract that                     *)
(* crossChainBridge_test.rs calls.  Each Solana program keeps its state in *)
(* one account; every instruction deserialises the whole account, runs its *)
(* handler and, only when the handler reaches its end, serialises the      *)
(* state back into the same bytes.  An instruction that fails in that last *)
(* step has written the beginning of the new state; the account keeps it   *)
(* unless the runtime discards it.  Each program has its own               *)
(* specification; the accounts of the other programs do not change in its  *)
(* behaviours.  Besides the specifications of the programs, which start    *)
(* from new accounts, there are specifications of the handlers, which      *)
(* start from the accounts a handler can be given, and specifications of   *)
(* single functions, which start from the arguments of the function.       *)
(***************************************************************************)
EXTENDS Integers, Sequences, FiniteSets, TLC

VARIABLES swap_data,     \* the SwapState stored in the swap account
          verifier_data, \* the VerificationState stored in the verifier account
          message_data,  \* the MessagePassingState stored in the message account
          storage,       \* the instance storage of the Verinode proof contract
          bridge_data,   \* the BridgeState stored in the bridge account
          bridge_storage, \* the instance storage of the bridge contract
          program,       \* the program the instructions are sent to, where a
                         \* specification lets the behaviours choose one
          clock,         \* Clock::get().unix_timestamp of the ledger
          result,        \* the last instruction processed and its ProgramResult
          input          \* the arguments of the function, in the specification
                         \* of a single function

vars == <<swap_data, verifier_data, message_data, storage, bridge_data, bridge_storage,
          program, clock, result, input>>

\* what an instruction of the swap program does not touch
not_swap ==
    <<verifier_data, message_data, storage, bridge_data, bridge_storage, program, input>>
\* what an instruction of the chain verifier does not touch
not_verifier ==
    <<swap_data, message_data, storage, bridge_data, bridge_storage, program, input>>
\* what an instruction of the message passing program does not touch
not_message ==
    <<swap_data, verifier_data, storage, bridge_data, bridge_storage, program, input>>
\* what the application of a function to its arguments does not touch
accounts ==
    <<swap_data, verifier_data, message_data, storage, bridge_data, bridge_storage, program>>
\* what a call of the Verinode proof contract does not touch
not_storage ==
    <<swap_data, verifier_data, message_data, bridge_data, bridge_storage, program, input>>
\* what an instruction of the bridge program does not touch
not_bridge ==
    <<swap_data, verifier_data, message_data, storage, bridge_storage, program, input>>
\* what a call of the bridge contract does not touch
not_bridge_storage ==
    <<swap_data, verifier_data, message_data, storage, bridge_data, program, input>>

(***************************************************************************)
(* Bounds of the model and the inputs the instructions are drawn from.     *)
(***************************************************************************)
MaxSwaps == 2          \* successful initiate_swap calls explored
ClockStart == 1000     \* ledger time of the first state

DefaultFeeRate == 1000
DefaultMinTimelock == 3600
DefaultMaxTimelock == 86400 * 7

\* Option<T>: None is the empty sequence, Some(x) the sequence of x alone
None == <<>>
Some(x) == <<x>>
DefaultPubkey == "default"
Keys == {"admin", "alice", "bob"}
\* the second account of an instruction, with its is_signer flag: every key
\* signing, and one account that did not sign
Signers == {<<k, TRUE>> : k \in Keys} \cup {<<"bob", FALSE>>}
\* the accounts that initiate swaps
Initiators == {<<"alice", TRUE>>, <<"bob", FALSE>>}
\* the participants named in participate_swap: the initiator herself and
\* another account
Participants == {"alice", "bob"}
AuthorityKeys == {"admin"}
SwapIds == {"s1"}

Secrets == {<<1>>, <<2>>}

\* The real SHA-256 digests of the byte strings the model hashes.
\* Digest_0102 is the digest of the two bytes 0x01 0x02, Digest_0102_02 the
\* digest of Digest_0102 followed by the byte 0x02, and so on.
Digest_01 ==
    <<75, 245, 18, 47, 52, 69, 84, 197, 59, 222, 46, 187, 140, 210, 183,
      227, 209, 96, 10, 214, 49, 195, 133, 165, 215, 204, 226, 60, 119,
      133, 69, 154>>
Digest_02 ==
    <<219, 193, 180, 201, 0, 255, 228, 141, 87, 91, 93, 165, 198, 56, 4,
      1, 37, 246, 93, 176, 254, 62, 36, 73, 75, 118, 234, 152, 100, 87,
      217, 134>>
Digest_0102 ==
    <<161, 40, 113, 254, 226, 16, 251, 134, 25, 41, 30, 174, 161, 148, 88,
      28, 189, 37, 49, 228, 178, 55, 89, 210, 37, 246, 128, 105, 35, 246,
      50, 34>>
Digest_0101 ==
    <<157, 207, 151, 161, 132, 243, 38, 35, 209, 26, 115, 18, 76, 235, 153,
      165, 112, 155, 8, 55, 33, 232, 120, 161, 109, 120, 245, 150, 113, 139,
      167, 178>>
Digest_0102_02 ==
    <<197, 153, 97, 149, 83, 82, 101, 218, 116, 50, 154, 195, 161, 236, 162,
      36, 120, 144, 60, 238, 157, 19, 169, 16, 122, 79, 233, 254, 154, 221,
      223, 14>>
Digest_0102_01 ==
    <<112, 208, 239, 169, 98, 83, 170, 210, 18, 113, 45, 129, 20, 215, 53,
      75, 192, 246, 21, 11, 143, 56, 116, 75, 59, 152, 155, 168, 0, 130, 54,
      48>>
Digest_0102_02_02 ==
    <<49, 182, 200, 189, 98, 94, 37, 16, 90, 131, 128, 67, 78, 121, 237, 7,
      119, 92, 230, 174, 124, 181, 46, 50, 174, 135, 160, 50, 148, 10, 227,
      174>>

\* sha2::Sha256 (new, update.., finalize) on the byte strings of the model
Sha256(data) ==
    CASE data = <<1>> -> Digest_01
      [] data = <<2>> -> Digest_02
      [] data = <<1, 2>> -> Digest_0102
      [] data = <<1, 1>> -> Digest_0101
      [] data = Digest_0102 \o <<2>> -> Digest_0102_02
      [] data = Digest_0102 \o <<1>> -> Digest_0102_01
      [] data = Digest_0102_02 \o <<2>> -> Digest_0102_02_02

\* secret_hash arguments of initiate_swap: the digest of the first secret, so
\* that a redeem with the second secret is a mismatch
SecretHashes == {Sha256(<<1>>)}

\* timelock arguments of initiate_swap: the limits of an account initialised
\* in place (both 0) and of the default state, and the values next to them
Timelocks == {0, 1, DefaultMinTimelock - 1, DefaultMinTimelock,
              DefaultMaxTimelock, DefaultMaxTimelock + 1}

\* the ledger times at which instructions arrive: the start, and the times
\* right before, at and right after the expiry of a swap initiated at the start with the
\* minimum timelock
ClockPoints == {ClockStart + d : d \in {DefaultMinTimelock - 1, DefaultMinTimelock,
                                        DefaultMinTimelock + 1}}

TheAsset == [token_address |-> <<7>>, amount |-> 5, decimals |-> 6]
TheDepositArgs == [transaction_hash |-> <<9>>, block_number |-> 11, proof |-> <<3>>]

(***************************************************************************)
(* The data.  Every u64 of the model stays far below 2^64 (the clock is a  *)
(* unix time, timelocks are at most max_timelock + 1, counters at most     *)
(* MaxSwaps), so the u64 additions below never wrap.                       *)
(***************************************************************************)
\* HashMap::new()
EmptyMap == [x \in {} |-> None]

\* the state the zeros of a new account decode to
ZeroSwapState ==
    [is_initialized |-> FALSE,
     authority |-> DefaultPubkey,
     active_swaps |-> EmptyMap,
     completed_swaps |-> <<>>,
     swap_stats |-> [total_swaps |-> 0, completed_swaps |-> 0, refunded_swaps |-> 0,
                     expired_swaps |-> 0, total_volume |-> 0, average_swap_time |-> 0],
     fee_rate |-> 0,
     min_timelock |-> 0,
     max_timelock |-> 0]

\* lines 171-187: the SwapState initialize_swap_state falls back to
DefaultSwapState ==
    [is_initialized |-> FALSE,
     authority |-> DefaultPubkey,
     active_swaps |-> EmptyMap,
     completed_swaps |-> <<>>,
     swap_stats |-> [total_swaps |-> 0, completed_swaps |-> 0, refunded_swaps |-> 0,
                     expired_swaps |-> 0, total_volume |-> 0, average_swap_time |-> 0],
     fee_rate |-> DefaultFeeRate,
     min_timelock |-> DefaultMinTimelock,
     max_timelock |-> DefaultMaxTimelock]

\* HashMap::insert, HashMap::remove and contains_key on active_swaps
MapInsert(m, k, v) == [x \in DOMAIN m \cup {k} |-> IF x = k THEN v ELSE m[x]]
MapRemove(m, k) == [x \in DOMAIN m \ {k} |-> m[x]]
ContainsKey(m, k) == k \in DOMAIN m

(***************************************************************************)
(* The account.  An instruction reads the state with try_from_slice on the *)
(* whole data of the account and writes it back with serialize into the    *)
(* same slice; the program never changes the length of the account.  The   *)
(* model keeps an account as the state its first bytes encode together     *)
(* with data_len, the length of the account's data: when the encoding is   *)
(* shorter than the account the bytes behind it are left over from what    *)
(* the account held before (zeros, or the end of a longer state); when it  *)
(* is longer than the account, the account holds only its first data_len   *)
(* bytes, which is what a serialize call that failed has left.  The length *)
(* of the encoding is kept beside the state as borsh_len.                  *)
(***************************************************************************)
\* the sum of the values of a function with a finite domain
RECURSIVE Sum(_)
Sum(f) ==
    IF DOMAIN f = {} THEN 0
    ELSE LET k == CHOOSE x \in DOMAIN f : TRUE
         IN f[k] + Sum([x \in DOMAIN f \ {k} |-> f[x]])

\* the lengths of the borsh encodings: a Vec<u8> or a String is a u32 length
\* and its bytes, a Pubkey 32 bytes, a u64 or an f64 8 bytes, a bool, a u8 or
\* the tag of an enum or of an Option 1 byte, a HashMap or a Vec a u32 length
\* and its entries
U32Size == 4
U64Size == 8
PubkeySize == 32
VecU8Size(bytes) == U32Size + Len(bytes)
StringSize(string) == U32Size + Len(string)
OptionVecU8Size(option) == IF option = None THEN 1 ELSE 1 + VecU8Size(option[1])
OptionPubkeySize(option) == IF option = None THEN 1 ELSE 1 + PubkeySize
OptionStringSize(option) == IF option = None THEN 1 ELSE 1 + StringSize(option[1])
VecVecU8Size(vec) == U32Size + Sum([i \in DOMAIN vec |-> VecU8Size(vec[i])])

\* atomicSwap.rs
AssetInfoSize(asset) == VecU8Size(asset.token_address) + U64Size + 1
DepositInfoSize(deposit_info) ==
    VecU8Size(deposit_info.transaction_hash) + U64Size + U64Size
    + VecU8Size(deposit_info.proof)
OptionDepositInfoSize(option) ==
    IF option = None THEN 1 ELSE 1 + DepositInfoSize(option[1])
AtomicSwapSize(atomic_swap) ==
    StringSize(atomic_swap.swap_id) + PubkeySize
    + OptionPubkeySize(atomic_swap.participant)
    + U64Size + U64Size
    + AssetInfoSize(atomic_swap.initiator_asset)
    + AssetInfoSize(atomic_swap.participant_asset)
    + OptionDepositInfoSize(atomic_swap.initiator_deposit)
    + OptionDepositInfoSize(atomic_swap.participant_deposit)
    + 1
    + VecU8Size(atomic_swap.secret_hash)
    + OptionVecU8Size(atomic_swap.secret)
    + U64Size + U64Size + U64Size
    + 1 + 1
SwapStateSize(sd) ==
    1 + PubkeySize
    + U32Size + Sum([id \in DOMAIN sd.active_swaps |->
                        StringSize(id) + AtomicSwapSize(sd.active_swaps[id])])
    + U32Size + Sum([i \in DOMAIN sd.completed_swaps |->
                        StringSize(sd.completed_swaps[i])])
    + 6 * U64Size
    + U64Size + U64Size + U64Size

\* chainVerifier.rs
ChainProofSize(chain_proof) ==
    U64Size + U64Size
    + VecU8Size(chain_proof.transaction_hash)
    + VecU8Size(chain_proof.proof_data)
    + VecU8Size(chain_proof.merkle_root)
    + VecVecU8Size(chain_proof.merkle_proof)
    + U64Size
    + VecU8Size(chain_proof.verifier_signature)
ChainVerificationConfigSize(chain_config) ==
    U64Size + StringSize(chain_config.name) + StringSize(chain_config.rpc_url)
    + U64Size + U64Size + 1
    + VecVecU8Size(chain_config.verifier_addresses)
VerifiedProofSize(verified_proof) ==
    StringSize(verified_proof.proof_id) + ChainProofSize(verified_proof.chain_proof)
    + 1 + U64Size + PubkeySize
    + OptionStringSize(verified_proof.cross_chain_reference)
PendingVerificationSize(pending_verification) ==
    StringSize(pending_verification.proof_id)
    + ChainProofSize(pending_verification.chain_proof)
    + U64Size + 1 + U32Size
ChainStatsSize == 4 * U64Size
VerificationStateSize(vd) ==
    1 + PubkeySize
    + U32Size + Sum([c \in DOMAIN vd.supported_chains |->
                        U64Size + ChainVerificationConfigSize(vd.supported_chains[c])])
    + U32Size + Sum([id \in DOMAIN vd.verified_proofs |->
                        StringSize(id) + VerifiedProofSize(vd.verified_proofs[id])])
    + U32Size + Sum([id \in DOMAIN vd.pending_verifications |->
                        StringSize(id)
                        + PendingVerificationSize(vd.pending_verifications[id])])
    + U64Size + U64Size + U64Size + U64Size
    + U32Size + Sum([c \in DOMAIN vd.verification_stats.chain_stats |->
                        U64Size + ChainStatsSize])

\* messagePassing.rs: sender is the 32 bytes of a key, signature the 32 bytes
\* of a SHA-256 digest, nonce a u64
RelayProofSize(relay_proof) ==
    PubkeySize + VecU8Size(relay_proof.relay_transaction) + U64Size
    + VecU8Size(relay_proof.relay_signature) + U64Size
CrossChainMessageSize(message) ==
    StringSize(message.message_id) + U64Size + U64Size
    + (U32Size + PubkeySize)
    + VecU8Size(message.recipient)
    + 1
    + VecU8Size(message.payload)
    + U64Size + U64Size + U64Size + U64Size
    + 1
    + (U32Size + 32)
    + (IF message.relay_proof = None THEN 1
       ELSE 1 + RelayProofSize(message.relay_proof[1]))
ExecutionResultSize(execution_result) ==
    1 + VecU8Size(execution_result.return_data)
    + OptionStringSize(execution_result.error_message) + U64Size
DeliveredMessageSize(delivered_message) ==
    StringSize(delivered_message.message_id)
    + CrossChainMessageSize(delivered_message.original_message)
    + U64Size
    + ExecutionResultSize(delivered_message.execution_result)
    + U64Size + PubkeySize
ChainMessageConfigSize(chain_config) ==
    U64Size + StringSize(chain_config.name)
    + VecU8Size(chain_config.message_router)
    + VecU8Size(chain_config.gas_price_oracle)
    + U64Size + U64Size + U64Size
    + (U32Size + Len(chain_config.supported_message_types))
RelayerInfoSize(relayer_info) ==
    PubkeySize + U64Size + U32Size + U64Size + U64Size + 1
    + (U32Size + U64Size * Len(relayer_info.supported_chains))
ChainMessageStatsSize == 4 * U64Size
MessagePassingStateSize(md) ==
    1 + PubkeySize
    + U32Size + Sum([c \in DOMAIN md.supported_chains |->
                        U64Size + ChainMessageConfigSize(md.supported_chains[c])])
    + U32Size + Sum([id \in DOMAIN md.pending_messages |->
                        StringSize(id) + CrossChainMessageSize(md.pending_messages[id])])
    + U32Size + Sum([id \in DOMAIN md.delivered_messages |->
                        StringSize(id)
                        + DeliveredMessageSize(md.delivered_messages[id])])
    + 5 * U64Size
    + U32Size + Sum([c \in DOMAIN md.message_stats.chain_stats |->
                        U64Size + ChainMessageStatsSize])
    + U64Size
    + U32Size + Sum([k \in DOMAIN md.relayers |->
                        PubkeySize + RelayerInfoSize(md.relayers[k])])

\* crossChainBridge.rs: sender is the 32 bytes of a key, proof_hash the 32
\* bytes of a SHA-256 digest
BridgeChainConfigSize(chain_config) ==
    U64Size + StringSize(chain_config.name) + StringSize(chain_config.rpc_url)
    + VecU8Size(chain_config.bridge_address) + U64Size + U64Size
PendingTransferSize(transfer) ==
    StringSize(transfer.transfer_id) + U64Size + U64Size
    + (U32Size + PubkeySize)
    + VecU8Size(transfer.recipient)
    + U64Size
    + VecU8Size(transfer.token_address)
    + U64Size + 1
    + (U32Size + 32)
BridgeStateSize(bd) ==
    1 + PubkeySize
    + U32Size + Sum([c \in DOMAIN bd.supported_chains |->
                        U64Size + BridgeChainConfigSize(bd.supported_chains[c])])
    + U32Size + Sum([id \in DOMAIN bd.pending_transfers |->
                        StringSize(id) + PendingTransferSize(bd.pending_transfers[id])])
    + U32Size + Sum([i \in DOMAIN bd.completed_transfers |->
                        StringSize(bd.completed_transfers[i])])
    + U64Size + U64Size

\* the length of the borsh encoding of the state of an account
BorshSize(state) ==
    IF "active_swaps" \in DOMAIN state THEN SwapStateSize(state)
    ELSE IF "verified_proofs" \in DOMAIN state THEN VerificationStateSize(state)
    ELSE IF "pending_messages" \in DOMAIN state THEN MessagePassingStateSize(state)
    ELSE BridgeStateSize(state)

\* the account whose data of data_len bytes begins with the encoding of state
InAccount(state, data_len) ==
    [f \in DOMAIN state \cup {"data_len", "borsh_len"} |->
        IF f = "data_len" THEN data_len
        ELSE IF f = "borsh_len" THEN BorshSize(state)
        ELSE state[f]]

\* Ok(()) and Err(e) of a handler, with the account it leaves
Ok(sd) == [res |-> "Ok", data |-> sd]
Err(e, sd) == [res |-> e, data |-> sd]

\* T::try_from_slice(&account.data.borrow()) succeeds exactly when the whole
\* data of the account is one encoding: it fails on an account longer than
\* the state ("Not all bytes read") and on one too short to hold a state.
Deserializes(sd) == sd.borsh_len = sd.data_len

\* state.serialize(&mut &mut account.data.borrow_mut()[..]).map_err(..)? and
\* the Ok(()) behind it: the encoding is written over the first bytes of the
\* account and the rest of the account stays.  When the account is shorter
\* than the encoding the write fills the account with the first data_len
\* bytes of the encoding and fails.  The record it returns stands for the
\* bytes in the account's buffer: with borsh_len > data_len they are the
\* cut-off encoding of state, which never deserializes; the fields tell
\* which state the handler was serializing.  state is the account sd with
\* its fields changed.
Serialize(sd, state) ==
    LET written == [state EXCEPT !.borsh_len = BorshSize(state)] IN
    IF written.borsh_len > sd.data_len THEN Err("InvalidAccountData", written)
    ELSE Ok(written)

\* entrypoint!(process_instruction): the accounts an instruction can leave.
\* process_instruction returns with the bytes its handler wrote in the
\* account's buffer, and no code of the program restores them.  When it
\* returns Ok(()) the account holds them.  When it returns an error after a
\* write, the account holds them where process_instruction is called
\* directly, and holds the bytes sd from before the instruction where the
\* program runs under the Solana runtime, which is not part of the
\* repository and discards the writes of a failed instruction.  When the
\* handler wrote nothing, r.data is sd.
Commit(r, sd) == IF r.res = "Ok" THEN {r.data} ELSE {r.data, sd}

(***************************************************************************)
(* initialize_swap_state                                                   *)
(***************************************************************************)
\* lines 170-187: try_from_slice(..).unwrap_or_else(|_| SwapState {..}), the
\* state of the account when it deserializes and the default state otherwise
SwapStateOrDefault(sd) ==
    IF Deserializes(sd) THEN sd ELSE InAccount(DefaultSwapState, sd.data_len)

initialize_swap_state(sd, is_signer, authority) ==
    IF ~is_signer THEN Err("MissingRequiredSignature", sd)
    ELSE LET swap_data0 == SwapStateOrDefault(sd) IN
         IF swap_data0.is_initialized THEN Err("AccountAlreadyInitialized", sd)
         ELSE Serialize(sd, [swap_data0 EXCEPT !.is_initialized = TRUE,
                                               !.authority = authority])

(***************************************************************************)
(* initiate_swap                                                           *)
(***************************************************************************)
TimelockOutOfRangeLoose(sd, timelock) ==
    timelock < sd.min_timelock - 1 \/ timelock > sd.max_timelock + 1

TimelockOutOfRange(sd, timelock) ==
    timelock < sd.min_timelock \/ timelock > sd.max_timelock

NewSwap(now, signer, args) ==
    [swap_id |-> args.swap_id,
     initiator |-> signer,
     participant |-> None,
     initiator_chain |-> args.initiator_chain,
     participant_chain |-> args.participant_chain,
     initiator_asset |-> args.initiator_asset,
     participant_asset |-> args.participant_asset,
     initiator_deposit |-> None,
     participant_deposit |-> None,
     status |-> "Initiated",
     secret_hash |-> args.secret_hash,
     secret |-> None,
     timelock |-> args.timelock,
     created_at |-> now,
     expires_at |-> now + args.timelock,
     refund_initiator |-> FALSE,
     refund_participant |-> FALSE]

initiate_swap(sd, now, signer, is_signer, args) ==
    IF ~is_signer THEN Err("MissingRequiredSignature", sd)
    ELSE IF ~Deserializes(sd) THEN Err("BorshIoError", sd)
    ELSE IF ContainsKey(sd.active_swaps, args.swap_id)
    THEN Err("AccountAlreadyInitialized", sd)
    ELSE IF TimelockOutOfRange(sd, args.timelock) THEN Err("InvalidArgument", sd)
    ELSE Serialize(sd, [sd EXCEPT
             !.active_swaps = MapInsert(@, args.swap_id, NewSwap(now, signer, args)),
             !.swap_stats.total_swaps = @ + 1,
             !.swap_stats.total_volume = @ + args.initiator_asset.amount])

(***************************************************************************)
(* participate_swap                                                        *)
(***************************************************************************)
\* participate_swap recording the participant without advancing the status
participate_swap_keeps_status(sd, signer, is_signer, args) ==
    IF ~is_signer THEN Err("MissingRequiredSignature", sd)
    ELSE IF ~Deserializes(sd) THEN Err("BorshIoError", sd)
    ELSE IF ~ContainsKey(sd.active_swaps, args.swap_id) THEN Err("InvalidArgument", sd)
    ELSE LET atomic_swap == sd.active_swaps[args.swap_id] IN
         IF atomic_swap.participant # None THEN Err("AccountAlreadyInitialized", sd)
         ELSE IF atomic_swap.status # "Initiated" THEN Err("InvalidAccountData", sd)
         ELSE Serialize(sd, [sd EXCEPT
                  !.active_swaps[args.swap_id].participant = Some(args.participant)])

participate_swap(sd, signer, is_signer, args) ==
    IF ~is_signer THEN Err("MissingRequiredSignature", sd)
    ELSE IF ~Deserializes(sd) THEN Err("BorshIoError", sd)
    ELSE IF ~ContainsKey(sd.active_swaps, args.swap_id) THEN Err("InvalidArgument", sd)
    ELSE LET atomic_swap == sd.active_swaps[args.swap_id] IN
         IF atomic_swap.participant # None THEN Err("AccountAlreadyInitialized", sd)
         ELSE IF atomic_swap.status # "Initiated" THEN Err("InvalidAccountData", sd)
         ELSE Serialize(sd, [sd EXCEPT
                  !.active_swaps[args.swap_id].participant = Some(args.participant),
                  !.active_swaps[args.swap_id].status = "Deposited"])

(***************************************************************************)
(* deposit                                                                 *)
(***************************************************************************)
DepositInfo(now, args) ==
    [transaction_hash |-> args.transaction_hash,
     block_number |-> args.block_number,
     confirmed_at |-> now,
     proof |-> args.proof]

\* lines 343-345: the status written once both deposits are recorded
FundedStatus(atomic_swap) ==
    IF atomic_swap.initiator_deposit # None /\ atomic_swap.participant_deposit # None
    THEN "Deposited"
    ELSE atomic_swap.status

\* deposit without the tests that a party has not deposited yet
deposit_again(sd, now, signer, is_signer, args) ==
    IF ~is_signer THEN Err("MissingRequiredSignature", sd)
    ELSE IF ~Deserializes(sd) THEN Err("BorshIoError", sd)
    ELSE IF ~ContainsKey(sd.active_swaps, args.swap_id) THEN Err("InvalidArgument", sd)
    ELSE LET atomic_swap == sd.active_swaps[args.swap_id]
             deposit_info == DepositInfo(now, args)
         IN
         IF atomic_swap.initiator = signer
         THEN LET s1 == [atomic_swap EXCEPT !.initiator_deposit = Some(deposit_info)] IN
              Serialize(sd, [sd EXCEPT !.active_swaps[args.swap_id] =
                                [s1 EXCEPT !.status = FundedStatus(s1)]])
         ELSE IF atomic_swap.participant = Some(signer)
         THEN LET s1 == [atomic_swap EXCEPT !.participant_deposit = Some(deposit_info)] IN
              Serialize(sd, [sd EXCEPT !.active_swaps[args.swap_id] =
                                [s1 EXCEPT !.status = FundedStatus(s1)]])
         ELSE Err("InvalidAccountData", sd)

deposit(sd, now, signer, is_signer, args) ==
    IF ~is_signer THEN Err("MissingRequiredSignature", sd)
    ELSE IF ~Deserializes(sd) THEN Err("BorshIoError", sd)
    ELSE IF ~ContainsKey(sd.active_swaps, args.swap_id) THEN Err("InvalidArgument", sd)
    ELSE LET atomic_swap == sd.active_swaps[args.swap_id]
             deposit_info == DepositInfo(now, args)
         IN
         IF atomic_swap.initiator = signer
         THEN IF atomic_swap.initiator_deposit # None
              THEN Err("AccountAlreadyInitialized", sd)
              ELSE LET s1 == [atomic_swap EXCEPT !.initiator_deposit = Some(deposit_info)] IN
                   Serialize(sd, [sd EXCEPT !.active_swaps[args.swap_id] =
                                     [s1 EXCEPT !.status = FundedStatus(s1)]])
         ELSE IF atomic_swap.participant = Some(signer)
         THEN IF atomic_swap.participant_deposit # None
              THEN Err("AccountAlreadyInitialized", sd)
              ELSE LET s1 == [atomic_swap EXCEPT !.participant_deposit = Some(deposit_info)] IN
                   Serialize(sd, [sd EXCEPT !.active_swaps[args.swap_id] =
                                     [s1 EXCEPT !.status = FundedStatus(s1)]])
         ELSE Err("InvalidAccountData", sd)

(***************************************************************************)
(* redeem                                                                  *)
(***************************************************************************)
\* update_swap_stats: swap_stats.completed_swaps is read as it is when the
\* function is called
update_swap_stats(swap_stats, duration) ==
    LET total_completed == swap_stats.completed_swaps IN
    [swap_stats EXCEPT !.average_swap_time =
        (swap_stats.average_swap_time * total_completed + duration)
            \div (total_completed + 1)]

\* lines 376-382: the comparison of the digest of the secret with secret_hash
SecretMismatchNever(secret, atomic_swap) == FALSE

SecretMismatch(secret, atomic_swap) == Sha256(secret) # atomic_swap.secret_hash

redeem(sd, now, signer, is_signer, args) ==
    IF ~is_signer THEN Err("MissingRequiredSignature", sd)
    ELSE IF ~Deserializes(sd) THEN Err("BorshIoError", sd)
    ELSE IF ~ContainsKey(sd.active_swaps, args.swap_id) THEN Err("InvalidArgument", sd)
    ELSE LET atomic_swap == sd.active_swaps[args.swap_id] IN
         IF atomic_swap.status # "Deposited" THEN Err("InvalidAccountData", sd)
         ELSE IF SecretMismatch(args.secret, atomic_swap) THEN Err("InvalidArgument", sd)
         ELSE LET swap_duration == now - atomic_swap.created_at
                  stats1 == [sd.swap_stats EXCEPT !.completed_swaps = @ + 1]
              IN
              Serialize(sd, [sd EXCEPT
                  !.completed_swaps = Append(@, args.swap_id),
                  !.active_swaps = MapRemove(@, args.swap_id),
                  !.swap_stats = update_swap_stats(stats1, swap_duration)])

(***************************************************************************)
(* refund                                                                  *)
(***************************************************************************)
\* lines 423-425
RefundTooEarlyOff(now, atomic_swap) == now + 1 < atomic_swap.expires_at

RefundTooEarly(now, atomic_swap) == now < atomic_swap.expires_at

\* lines 439-444: the end of refund, once the caller's flag is set
FinishRefundEither(sd, swap_id, atomic_swap) ==
    IF atomic_swap.refund_initiator \/ atomic_swap.refund_participant
    THEN [sd EXCEPT
          !.completed_swaps = Append(@, swap_id),
          !.active_swaps = MapRemove(@, swap_id),
          !.swap_stats.refunded_swaps = @ + 1]
    ELSE [sd EXCEPT !.active_swaps[swap_id] = atomic_swap]

FinishRefund(sd, swap_id, atomic_swap) ==
    IF atomic_swap.refund_initiator /\ atomic_swap.refund_participant
    THEN [sd EXCEPT
          !.completed_swaps = Append(@, swap_id),
          !.active_swaps = MapRemove(@, swap_id),
          !.swap_stats.refunded_swaps = @ + 1]
    ELSE [sd EXCEPT !.active_swaps[swap_id] = atomic_swap]

refund(sd, now, signer, is_signer, args) ==
    IF ~is_signer THEN Err("MissingRequiredSignature", sd)
    ELSE IF ~Deserializes(sd) THEN Err("BorshIoError", sd)
    ELSE IF ~ContainsKey(sd.active_swaps, args.swap_id) THEN Err("InvalidArgument", sd)
    ELSE LET atomic_swap == sd.active_swaps[args.swap_id] IN
         IF RefundTooEarly(now, atomic_swap) THEN Err("InvalidArgument", sd)
         ELSE IF args.is_initiator
         THEN IF atomic_swap.initiator # signer THEN Err("InvalidAccountData", sd)
              ELSE Serialize(sd, FinishRefund(sd, args.swap_id,
                                   [atomic_swap EXCEPT !.refund_initiator = TRUE]))
         ELSE IF atomic_swap.participant # Some(signer) THEN Err("InvalidAccountData", sd)
              ELSE Serialize(sd, FinishRefund(sd, args.swap_id,
                                   [atomic_swap EXCEPT !.refund_participant = TRUE]))

(***************************************************************************)
(* cancel_swap and update_fee_rate                                         *)
(***************************************************************************)
\* cancel_swap without the comparison of the signer with the authority
cancel_swap_any_signer(sd, signer, is_signer, swap_id) ==
    IF ~is_signer THEN Err("MissingRequiredSignature", sd)
    ELSE IF ~Deserializes(sd) THEN Err("BorshIoError", sd)
    ELSE IF ContainsKey(sd.active_swaps, swap_id)
    THEN Serialize(sd, [sd EXCEPT
             !.completed_swaps = Append(@, swap_id),
             !.active_swaps = MapRemove(@, swap_id)])
    ELSE Err("InvalidArgument", sd)

cancel_swap(sd, signer, is_signer, swap_id) ==
    IF ~is_signer THEN Err("MissingRequiredSignature", sd)
    ELSE IF ~Deserializes(sd) THEN Err("BorshIoError", sd)
    ELSE IF sd.authority # signer THEN Err("InvalidAccountData", sd)
    ELSE IF ContainsKey(sd.active_swaps, swap_id)
    THEN Serialize(sd, [sd EXCEPT
             !.completed_swaps = Append(@, swap_id),
             !.active_swaps = MapRemove(@, swap_id)])
    ELSE Err("InvalidArgument", sd)

update_fee_rate(sd, signer, is_signer, new_rate) ==
    IF ~is_signer THEN Err("MissingRequiredSignature", sd)
    ELSE IF ~Deserializes(sd) THEN Err("BorshIoError", sd)
    ELSE IF sd.authority # signer THEN Err("InvalidAccountData", sd)
    ELSE Serialize(sd, [sd EXCEPT !.fee_rate = new_rate])

(***************************************************************************)
(* The chain verifier program, contracts/src/chainVerifier.rs.             *)
(***************************************************************************)
MinTrustLevel == 5       \* verify_cross_chain_validity
StalenessBlocks == 100   \* perform_verification

\* the inputs of the chain verifier's instructions
ProofIds == {"p1", "p2"}
\* two chains that get configured (chain ids are u64 keys of a HashMap) and a
\* chain that never is
SourceChain == 10
TargetChain == 20
UnknownChain == 30
ChainIds == {SourceChain, TargetChain}
BlockTime == 36
ConfirmationBlocks == 50
TxHash == <<1>>
\* the root of the two leaves 0x01 and 0x02, and paths of siblings: none,
\* the sibling 0x02 of TxHash under MerkleRoot, another sibling, two siblings
MerkleRoot == Digest_0102
MerklePaths == {<<>>, <<<<2>>>>, <<<<1>>>>, <<<<2>>, <<2>>>>}
\* verifier signatures: 65 bytes, 65 zero bytes, 64 bytes
Sig65 == [i \in 1..65 |-> 7]
SigZero == [i \in 1..65 |-> 0]
SigShort == [i \in 1..64 |-> 7]
Signatures == {Sig65, SigZero, SigShort}

ChainProof(chain_id, merkle_proof, verifier_signature) ==
    [chain_id |-> chain_id,
     block_number |-> 11,
     transaction_hash |-> TxHash,
     proof_data |-> <<3>>,
     merkle_root |-> MerkleRoot,
     merkle_proof |-> merkle_proof,
     timestamp |-> ClockStart,
     verifier_signature |-> verifier_signature]

\* every proof the verdict is computed for in the properties
ChainProofs ==
    {ChainProof(c, mp, sig) :
        c \in ChainIds \cup {UnknownChain}, mp \in MerklePaths, sig \in Signatures}
\* the proof submitted in the behaviours: TxHash with its sibling under
\* MerkleRoot and a 65-byte signature
SubmittedProofs == {ChainProof(SourceChain, <<<<2>>>>, Sig65)}
SubmitProofArgs == [proof_id : ProofIds, chain_proof : SubmittedProofs]
UnknownChainSubmit ==
    [proof_id |-> "p1", chain_proof |-> ChainProof(UnknownChain, <<<<2>>>>, Sig65)]

ChainConfig(chain_id, trust_level) ==
    [chain_id |-> chain_id,
     name |-> "chain",
     rpc_url |-> "rpc",
     block_time |-> BlockTime,
     confirmation_blocks |-> ConfirmationBlocks,
     trust_level |-> trust_level,
     verifier_addresses |-> <<>>]
AddChainConfigArgs ==
    {ChainConfig(SourceChain, MinTrustLevel), ChainConfig(TargetChain, MinTrustLevel),
     ChainConfig(TargetChain, MinTrustLevel - 1)}

VerifyCrossChainProofArgs ==
    [proof_id : ProofIds, source_chain_id : {SourceChain},
     target_chain_id : {TargetChain, UnknownChain},
     original_proof_id : ProofIds]
\* the results the authority sets with update_verification_status
OverrideResults == {"Valid"}

\* u64 as f64 / u64 as f64: the quotient num/den, kept as the fraction in
\* lowest terms (0.0 is <<0, 1>>)
RECURSIVE Gcd(_, _)
Gcd(a, b) == IF b = 0 THEN a ELSE Gcd(b, a % b)
Quotient(num, den) == <<num \div Gcd(num, den), den \div Gcd(num, den)>>

DefaultVerificationState ==
    [is_initialized |-> FALSE,
     authority |-> DefaultPubkey,
     supported_chains |-> EmptyMap,
     verified_proofs |-> EmptyMap,
     pending_verifications |-> EmptyMap,
     verification_stats |->
        [total_verified |-> 0,
         total_failed |-> 0,
         success_rate |-> <<0, 1>>,
         average_verification_time |-> 0,
         chain_stats |-> EmptyMap]]

\* lines 180-196: try_from_slice(..).unwrap_or_else(|_| VerificationState {..})
VerificationStateOrDefault(vd) ==
    IF Deserializes(vd) THEN vd ELSE InAccount(DefaultVerificationState, vd.data_len)

initialize_verifier(vd, is_signer, authority) ==
    IF ~is_signer THEN Err("MissingRequiredSignature", vd)
    ELSE LET verifier_data0 == VerificationStateOrDefault(vd) IN
         IF verifier_data0.is_initialized THEN Err("AccountAlreadyInitialized", vd)
         ELSE Serialize(vd, [verifier_data0 EXCEPT !.is_initialized = TRUE,
                                                   !.authority = authority])

add_chain_config(vd, signer, is_signer, args) ==
    IF ~is_signer THEN Err("MissingRequiredSignature", vd)
    ELSE IF ~Deserializes(vd) THEN Err("BorshIoError", vd)
    ELSE IF vd.authority # signer THEN Err("InvalidAccountData", vd)
    ELSE Serialize(vd, [vd EXCEPT
             !.supported_chains = MapInsert(@, args.chain_id, args),
             !.verification_stats.chain_stats =
                 MapInsert(@, args.chain_id,
                           [chain_id |-> args.chain_id, verified_count |-> 0,
                            failed_count |-> 0, average_time |-> 0])])

submit_proof(vd, now, signer, is_signer, args) ==
    IF ~is_signer THEN Err("MissingRequiredSignature", vd)
    ELSE IF ~Deserializes(vd) THEN Err("BorshIoError", vd)
    ELSE IF ~ContainsKey(vd.supported_chains, args.chain_proof.chain_id)
    THEN Err("InvalidArgument", vd)
    ELSE Serialize(vd, [vd EXCEPT !.pending_verifications =
                MapInsert(@, args.proof_id,
                          [proof_id |-> args.proof_id,
                           chain_proof |-> args.chain_proof,
                           submitted_at |-> now,
                           status |-> "Pending",
                           attempts |-> 0])])

\* the loop of verify_merkle_proof: the hash of the running value followed by
\* each element of the path in turn
RECURSIVE MerkleFold(_, _)
MerkleFold(computed_hash, proof) ==
    IF proof = <<>> THEN computed_hash
    ELSE MerkleFold(Sha256(computed_hash \o Head(proof)), Tail(proof))

\* verify_merkle_proof accepting every path that is not empty
verify_merkle_proof_nonempty(root, proof) == proof # <<>>

verify_merkle_proof(root, proof) ==
    IF proof = <<>> THEN FALSE
    ELSE MerkleFold(root, proof) = root

verify_transaction_signature(transaction_hash, signature) ==
    IF Len(signature) # 65 THEN FALSE
    ELSE Len(signature) = 65 /\ ~(\A i \in DOMAIN signature : signature[i] = 0)

\* line 448: the age test of perform_verification
ProofTooOld(current_time, chain_proof, chain_config) ==
    current_time > chain_proof.timestamp + chain_config.block_time * StalenessBlocks

\* current_time is Clock::get() read inside perform_verification
perform_verification(chain_proof, supported_chains, current_time) ==
    IF ~ContainsKey(supported_chains, chain_proof.chain_id) THEN "Invalid"
    ELSE IF ~verify_merkle_proof(chain_proof.merkle_root, chain_proof.merkle_proof)
    THEN "MalformedProof"
    ELSE IF ~verify_transaction_signature(chain_proof.transaction_hash,
                                          chain_proof.verifier_signature)
    THEN "Invalid"
    ELSE IF ProofTooOld(current_time, chain_proof,
                        supported_chains[chain_proof.chain_id])
    THEN "Expired"
    ELSE "Valid"

\* verify_cross_chain_validity testing the trust level of the source chain only
verify_cross_chain_validity_source_only(original_proof, source_chain_id, target_chain_id, supported_chains) ==
    IF ~ContainsKey(supported_chains, source_chain_id)
       \/ ~ContainsKey(supported_chains, target_chain_id)
    THEN "Invalid"
    ELSE IF supported_chains[source_chain_id].trust_level < MinTrustLevel
    THEN "InsufficientConfirmations"
    ELSE "Valid"

verify_cross_chain_validity(original_proof, source_chain_id, target_chain_id, supported_chains) ==
    IF ~ContainsKey(supported_chains, source_chain_id)
       \/ ~ContainsKey(supported_chains, target_chain_id)
    THEN "Invalid"
    ELSE IF supported_chains[source_chain_id].trust_level < MinTrustLevel
            \/ supported_chains[target_chain_id].trust_level < MinTrustLevel
    THEN "InsufficientConfirmations"
    ELSE "Valid"

update_verification_stats(vd, chain_id, verification_result) ==
    LET st == vd.verification_stats
        st1 == IF verification_result = "Valid"
               THEN [st EXCEPT !.total_verified = @ + 1]
               ELSE [st EXCEPT !.total_failed = @ + 1]
        total == st1.total_verified + st1.total_failed
        st2 == [st1 EXCEPT !.success_rate = Quotient(st1.total_verified, total)]
        st3 == IF ContainsKey(st2.chain_stats, chain_id)
               THEN IF verification_result = "Valid"
                    THEN [st2 EXCEPT !.chain_stats[chain_id].verified_count = @ + 1]
                    ELSE [st2 EXCEPT !.chain_stats[chain_id].failed_count = @ + 1]
               ELSE st2
    IN [vd EXCEPT !.verification_stats = st3]

\* lines 321-322: the record stored under the proof id replaces any record
\* already stored under it
StoreVerified(verified_proofs, proof_id, verified_proof) ==
    MapInsert(verified_proofs, proof_id, verified_proof)

verify_proof(vd, now, signer, is_signer, proof_id) ==
    IF ~is_signer THEN Err("MissingRequiredSignature", vd)
    ELSE IF ~Deserializes(vd) THEN Err("BorshIoError", vd)
    ELSE IF vd.authority # signer THEN Err("InvalidAccountData", vd)
    ELSE IF ~ContainsKey(vd.pending_verifications, proof_id)
    THEN Err("InvalidArgument", vd)
    ELSE LET pending_verification == vd.pending_verifications[proof_id]
             verification_result ==
                 perform_verification(pending_verification.chain_proof,
                                      vd.supported_chains, now)
             verified_proof ==
                 [proof_id |-> proof_id,
                  chain_proof |-> pending_verification.chain_proof,
                  verification_result |-> verification_result,
                  verified_at |-> now,
                  verifier |-> signer,
                  cross_chain_reference |-> None]
             vd1 == [vd EXCEPT
                     !.verified_proofs = StoreVerified(@, proof_id, verified_proof),
                     !.pending_verifications = MapRemove(@, proof_id)]
         IN Serialize(vd, update_verification_stats(vd1, pending_verification.chain_proof.chain_id,
                                         verification_result))

verify_cross_chain_proof(vd, now, signer, is_signer, args) ==
    IF ~is_signer THEN Err("MissingRequiredSignature", vd)
    ELSE IF ~Deserializes(vd) THEN Err("BorshIoError", vd)
    ELSE IF vd.authority # signer THEN Err("InvalidAccountData", vd)
    ELSE IF ~ContainsKey(vd.verified_proofs, args.original_proof_id)
    THEN Err("InvalidArgument", vd)
    ELSE IF ~ContainsKey(vd.supported_chains, args.source_chain_id)
            \/ ~ContainsKey(vd.supported_chains, args.target_chain_id)
    THEN Err("InvalidArgument", vd)
    ELSE LET original_proof == vd.verified_proofs[args.original_proof_id]
             cross_chain_result ==
                 verify_cross_chain_validity(original_proof.chain_proof,
                                             args.source_chain_id,
                                             args.target_chain_id,
                                             vd.supported_chains)
             verified_proof ==
                 [original_proof EXCEPT
                  !.proof_id = args.proof_id,
                  !.verified_at = now,
                  !.verifier = signer,
                  !.cross_chain_reference = Some(args.original_proof_id),
                  !.verification_result = cross_chain_result]
             vd1 == [vd EXCEPT !.verified_proofs =
                        StoreVerified(@, args.proof_id, verified_proof)]
         IN Serialize(vd, update_verification_stats(vd1, args.target_chain_id, cross_chain_result))

update_verification_status(vd, now, signer, is_signer, proof_id, verification_result) ==
    IF ~is_signer THEN Err("MissingRequiredSignature", vd)
    ELSE IF ~Deserializes(vd) THEN Err("BorshIoError", vd)
    ELSE IF vd.authority # signer THEN Err("InvalidAccountData", vd)
    ELSE IF ContainsKey(vd.verified_proofs, proof_id)
    THEN Serialize(vd, [vd EXCEPT
             !.verified_proofs[proof_id].verification_result = verification_result,
             !.verified_proofs[proof_id].verified_at = now])
    ELSE Err("InvalidArgument", vd)

(***************************************************************************)
(* The message passing program, contracts/src/messagePassing.rs.           *)
(***************************************************************************)
\* the inputs of the message passing instructions
MessageIds == {"m1"}
MessageFeeRates == {25}
GasLimit == 1000
DataGasUsed == 21000     \* execute_cross_chain_message, MessageType::Data
MessageDelay == 60
\* the message types the source chain is configured with, and one it is not
SourceMessageTypes == <<"Transfer", "Swap">>
SendMessageTypes == {"Transfer", "Swap", "Proof"}
\* the accounts that send messages and the accounts that register as relayers
Senders == {<<"alice", TRUE>>, <<"bob", FALSE>>}
RelayerKeys == {"alice", "bob"}
\* the relayer the authority deactivates and reactivates
StatusKeys == {"bob"}

ChainMessageConfig(chain_id) ==
    [chain_id |-> chain_id,
     name |-> "chain",
     message_router |-> <<4>>,
     gas_price_oracle |-> <<5>>,
     block_time |-> BlockTime,
     confirmation_blocks |-> ConfirmationBlocks,
     max_message_size |-> 1024,
     supported_message_types |-> SourceMessageTypes]
AddChainMessageConfigArgs == {ChainMessageConfig(c) : c \in ChainIds}

SendMessageArgs ==
    [message_id : MessageIds, source_chain : {SourceChain},
     target_chain : {TargetChain, UnknownChain}, recipient : {<<8>>},
     message_type : SendMessageTypes, payload : {<<6>>},
     gas_limit : {GasLimit}, gas_price : {1}]
RelayMessageArgs ==
    [message_id : MessageIds, relay_transaction : {<<9>>}, relay_block : {11},
     relay_signature : {<<3>>}]
ExecuteMessageArgs == [message_id : MessageIds, execution_data : {<<2>>}]
RegisterRelayerArgs == {[stake_amount |-> 500, supported_chains |-> <<SourceChain>>]}

\* str::as_bytes of the message ids
Utf8(message_id) ==
    CASE message_id = "m1" -> <<109, 49>>
      [] message_id = "m2" -> <<109, 50>>

\* i64::to_be_bytes of a ledger time (below 2^32: the four high bytes are 0)
BeBytes8(n) ==
    <<0, 0, 0, 0, (n \div 16777216) % 256, (n \div 65536) % 256,
      (n \div 256) % 256, n % 256>>

\* hash[0..8] of the real SHA-256 digest of a message id followed by the eight
\* bytes of a ledger time, for the ids and the times of the model
Sha256Head8(data) ==
    CASE data = <<109, 49>> \o BeBytes8(1000) -> <<237, 207, 161, 211, 129, 134, 171, 87>>
      [] data = <<109, 49>> \o BeBytes8(1001) -> <<117, 70, 154, 231, 66, 211, 133, 138>>
      [] data = <<109, 49>> \o BeBytes8(1060) -> <<48, 112, 145, 72, 144, 138, 5, 188>>
      [] data = <<109, 49>> \o BeBytes8(1061) -> <<19, 175, 67, 40, 33, 21, 121, 249>>
      [] data = <<109, 50>> \o BeBytes8(1000) -> <<197, 4, 68, 17, 60, 98, 230, 12>>
      [] data = <<109, 50>> \o BeBytes8(1001) -> <<76, 5, 139, 158, 224, 74, 90, 180>>
      [] data = <<109, 50>> \o BeBytes8(1060) -> <<212, 143, 16, 82, 63, 70, 152, 170>>
      [] data = <<109, 50>> \o BeBytes8(1061) -> <<61, 147, 78, 200, 89, 41, 109, 110>>

\* the u64 nonce, kept as its eight big-endian bytes
generate_nonce(message_id, timestamp) ==
    Sha256Head8(Utf8(message_id) \o BeBytes8(timestamp))

\* the digest of the fields sign_message hashes, kept as the sequence of those
\* fields: the signature is determined by exactly them
sign_message(args, sender, nonce) ==
    <<"sha256", args.message_id, args.source_chain, args.target_chain,
      args.recipient, args.message_type, args.payload, nonce, sender>>

DefaultMessagePassingState ==
    [is_initialized |-> FALSE,
     authority |-> DefaultPubkey,
     supported_chains |-> EmptyMap,
     pending_messages |-> EmptyMap,
     delivered_messages |-> EmptyMap,
     message_stats |->
        [total_messages |-> 0,
         delivered_messages |-> 0,
         failed_messages |-> 0,
         average_delivery_time |-> 0,
         total_gas_used |-> 0,
         chain_stats |-> EmptyMap],
     fee_rate |-> 0,
     relayers |-> EmptyMap]

\* lines 233-251: try_from_slice(..).unwrap_or_else(|_| MessagePassingState {..})
MessagePassingStateOrDefault(md) ==
    IF Deserializes(md) THEN md
    ELSE InAccount(DefaultMessagePassingState, md.data_len)

initialize_message_passing(md, is_signer, args) ==
    IF ~is_signer THEN Err("MissingRequiredSignature", md)
    ELSE LET message_data0 == MessagePassingStateOrDefault(md) IN
         IF message_data0.is_initialized THEN Err("AccountAlreadyInitialized", md)
         ELSE Serialize(md, [message_data0 EXCEPT !.is_initialized = TRUE,
                                                  !.authority = args.authority,
                                                  !.fee_rate = args.fee_rate])

add_chain_message_config(md, signer, is_signer, args) ==
    IF ~is_signer THEN Err("MissingRequiredSignature", md)
    ELSE IF ~Deserializes(md) THEN Err("BorshIoError", md)
    ELSE IF md.authority # signer THEN Err("InvalidAccountData", md)
    ELSE Serialize(md, [md EXCEPT
             !.supported_chains = MapInsert(@, args.chain_id, args),
             !.message_stats.chain_stats =
                 MapInsert(@, args.chain_id,
                           [chain_id |-> args.chain_id, messages_sent |-> 0,
                            messages_received |-> 0, average_gas_used |-> 0])])

\* Vec::contains
Contains(vec, x) == \E i \in DOMAIN vec : vec[i] = x

\* lines 343-358: the message send_message builds
NewMessage(now, signer, args) ==
    LET nonce == generate_nonce(args.message_id, now) IN
    [message_id |-> args.message_id,
     source_chain |-> args.source_chain,
     target_chain |-> args.target_chain,
     sender |-> signer,
     recipient |-> args.recipient,
     message_type |-> args.message_type,
     payload |-> args.payload,
     nonce |-> nonce,
     timestamp |-> now,
     gas_limit |-> args.gas_limit,
     gas_price |-> args.gas_price,
     status |-> "Pending",
     signature |-> sign_message(args, signer, nonce),
     relay_proof |-> None]

send_message(md, now, signer, is_signer, args) ==
    IF ~is_signer THEN Err("MissingRequiredSignature", md)
    ELSE IF ~Deserializes(md) THEN Err("BorshIoError", md)
    ELSE IF ~ContainsKey(md.supported_chains, args.source_chain)
            \/ ~ContainsKey(md.supported_chains, args.target_chain)
    THEN Err("InvalidArgument", md)
    ELSE IF ~Contains(md.supported_chains[args.source_chain].supported_message_types,
                      args.message_type)
    THEN Err("InvalidArgument", md)
    ELSE LET md1 == [md EXCEPT
                     !.pending_messages =
                         MapInsert(@, args.message_id, NewMessage(now, signer, args)),
                     !.message_stats.total_messages = @ + 1]
         IN IF ContainsKey(md1.message_stats.chain_stats, args.source_chain)
            THEN Serialize(md, [md1 EXCEPT
                     !.message_stats.chain_stats[args.source_chain].messages_sent = @ + 1])
            ELSE Serialize(md, md1)

\* relay_message without the test of the relayer's is_active flag
relay_message_inactive(md, now, signer, is_signer, args) ==
    IF ~is_signer THEN Err("MissingRequiredSignature", md)
    ELSE IF ~Deserializes(md) THEN Err("BorshIoError", md)
    ELSE IF ~ContainsKey(md.relayers, signer) THEN Err("InvalidAccountData", md)
    ELSE IF ~ContainsKey(md.pending_messages, args.message_id)
    THEN Err("InvalidArgument", md)
    ELSE LET relay_proof ==
                 [relayer |-> signer,
                  relay_transaction |-> args.relay_transaction,
                  relay_block |-> args.relay_block,
                  relay_signature |-> args.relay_signature,
                  relay_timestamp |-> now]
         IN Serialize(md, [md EXCEPT
                !.pending_messages[args.message_id].relay_proof = Some(relay_proof),
                !.pending_messages[args.message_id].status = "InTransit"])

\* relay_message attaching the relay proof and leaving the status as it was
relay_message_keeps_status(md, now, signer, is_signer, args) ==
    IF ~is_signer THEN Err("MissingRequiredSignature", md)
    ELSE IF ~Deserializes(md) THEN Err("BorshIoError", md)
    ELSE IF ~ContainsKey(md.relayers, signer) THEN Err("InvalidAccountData", md)
    ELSE IF ~md.relayers[signer].is_active THEN Err("InvalidAccountData", md)
    ELSE IF ~ContainsKey(md.pending_messages, args.message_id)
    THEN Err("InvalidArgument", md)
    ELSE LET relay_proof ==
                 [relayer |-> signer,
                  relay_transaction |-> args.relay_transaction,
                  relay_block |-> args.relay_block,
                  relay_signature |-> args.relay_signature,
                  relay_timestamp |-> now]
         IN Serialize(md, [md EXCEPT
                !.pending_messages[args.message_id].relay_proof = Some(relay_proof)])

relay_message(md, now, signer, is_signer, args) ==
    IF ~is_signer THEN Err("MissingRequiredSignature", md)
    ELSE IF ~Deserializes(md) THEN Err("BorshIoError", md)
    ELSE IF ~ContainsKey(md.relayers, signer) THEN Err("InvalidAccountData", md)
    ELSE IF ~md.relayers[signer].is_active THEN Err("InvalidAccountData", md)
    ELSE IF ~ContainsKey(md.pending_messages, args.message_id)
    THEN Err("InvalidArgument", md)
    ELSE LET relay_proof ==
                 [relayer |-> signer,
                  relay_transaction |-> args.relay_transaction,
                  relay_block |-> args.relay_block,
                  relay_signature |-> args.relay_signature,
                  relay_timestamp |-> now]
         IN Serialize(md, [md EXCEPT
                !.pending_messages[args.message_id].relay_proof = Some(relay_proof),
                !.pending_messages[args.message_id].status = "InTransit"])

execute_cross_chain_message(message, execution_data) ==
    LET gas_used == message.gas_limit \div 2 IN
    CASE message.message_type = "Transfer" ->
            [success |-> TRUE, return_data |-> execution_data,
             error_message |-> None, gas_used |-> gas_used]
      [] message.message_type = "ContractCall" ->
            [success |-> TRUE, return_data |-> <<1, 2, 3, 4>>,
             error_message |-> None, gas_used |-> (message.gas_limit * 3) \div 4]
      [] message.message_type = "Data" ->
            [success |-> TRUE, return_data |-> message.payload,
             error_message |-> None, gas_used |-> DataGasUsed]
      [] OTHER ->
            [success |-> FALSE, return_data |-> <<>>,
             error_message |-> Some("Unsupported message type"),
             gas_used |-> gas_used]

\* lines 462-467: the statistics of the target chain after an execution
ReceivedStats(chain_stats, gas_used) ==
    LET received == chain_stats.messages_received + 1 IN
    [chain_stats EXCEPT
     !.messages_received = received,
     !.average_gas_used =
         (chain_stats.average_gas_used * received + gas_used) \div (received + 1)]

\* execute_message without the test that the message is InTransit
execute_message_any_status(md, now, signer, is_signer, args) ==
    IF ~is_signer THEN Err("MissingRequiredSignature", md)
    ELSE IF ~Deserializes(md) THEN Err("BorshIoError", md)
    ELSE IF ~ContainsKey(md.pending_messages, args.message_id)
    THEN Err("InvalidArgument", md)
    ELSE LET message == md.pending_messages[args.message_id]
             execution_result ==
                 execute_cross_chain_message(message, args.execution_data)
             delivered_message ==
                 [message_id |-> args.message_id,
                  original_message |-> message,
                  delivered_at |-> now,
                  execution_result |-> execution_result,
                  gas_used |-> execution_result.gas_used,
                  relayer |-> IF message.relay_proof = None THEN DefaultPubkey
                              ELSE message.relay_proof[1].relayer]
             md1 == [md EXCEPT
                     !.delivered_messages =
                         MapInsert(@, args.message_id, delivered_message),
                     !.pending_messages = MapRemove(@, args.message_id)]
             md2 == IF execution_result.success
                    THEN [md1 EXCEPT !.message_stats.delivered_messages = @ + 1]
                    ELSE [md1 EXCEPT !.message_stats.failed_messages = @ + 1]
             md3 == [md2 EXCEPT !.message_stats.total_gas_used =
                                    @ + execution_result.gas_used]
         IN IF ContainsKey(md3.message_stats.chain_stats, message.target_chain)
            THEN Serialize(md, [md3 EXCEPT
                     !.message_stats.chain_stats[message.target_chain] =
                         ReceivedStats(@, execution_result.gas_used)])
            ELSE Serialize(md, md3)

execute_message(md, now, signer, is_signer, args) ==
    IF ~is_signer THEN Err("MissingRequiredSignature", md)
    ELSE IF ~Deserializes(md) THEN Err("BorshIoError", md)
    ELSE IF ~ContainsKey(md.pending_messages, args.message_id)
    THEN Err("InvalidArgument", md)
    ELSE LET message == md.pending_messages[args.message_id] IN
         IF message.status # "InTransit" THEN Err("InvalidAccountData", md)
         ELSE LET execution_result ==
                      execute_cross_chain_message(message, args.execution_data)
                  delivered_message ==
                      [message_id |-> args.message_id,
                       original_message |-> message,
                       delivered_at |-> now,
                       execution_result |-> execution_result,
                       gas_used |-> execution_result.gas_used,
                       relayer |-> message.relay_proof[1].relayer]
                  md1 == [md EXCEPT
                          !.delivered_messages =
                              MapInsert(@, args.message_id, delivered_message),
                          !.pending_messages = MapRemove(@, args.message_id)]
                  md2 == IF execution_result.success
                         THEN [md1 EXCEPT !.message_stats.delivered_messages = @ + 1]
                         ELSE [md1 EXCEPT !.message_stats.failed_messages = @ + 1]
                  md3 == [md2 EXCEPT !.message_stats.total_gas_used =
                                         @ + execution_result.gas_used]
              IN IF ContainsKey(md3.message_stats.chain_stats, message.target_chain)
                 THEN Serialize(md, [md3 EXCEPT
                          !.message_stats.chain_stats[message.target_chain] =
                              ReceivedStats(@, execution_result.gas_used)])
                 ELSE Serialize(md, md3)

register_relayer(md, signer, is_signer, args) ==
    IF ~is_signer THEN Err("MissingRequiredSignature", md)
    ELSE IF ~Deserializes(md) THEN Err("BorshIoError", md)
    ELSE IF ContainsKey(md.relayers, signer) THEN Err("AccountAlreadyInitialized", md)
    ELSE Serialize(md, [md EXCEPT !.relayers =
                MapInsert(@, signer,
                          [address |-> signer,
                           stake_amount |-> args.stake_amount,
                           reputation |-> 100,
                           total_messages |-> 0,
                           success_rate |-> <<1, 1>>,
                           is_active |-> TRUE,
                           supported_chains |-> args.supported_chains])])

update_relayer_status(md, signer, is_signer, relayer_address, is_active) ==
    IF ~is_signer THEN Err("MissingRequiredSignature", md)
    ELSE IF ~Deserializes(md) THEN Err("BorshIoError", md)
    ELSE IF md.authority # signer THEN Err("InvalidAccountData", md)
    ELSE IF ContainsKey(md.relayers, relayer_address)
    THEN Serialize(md, [md EXCEPT !.relayers[relayer_address].is_active = is_active])
    ELSE Err("InvalidArgument", md)

\* update_fee_rate of messagePassing.rs
update_message_fee_rate(md, signer, is_signer, new_rate) ==
    IF ~is_signer THEN Err("MissingRequiredSignature", md)
    ELSE IF ~Deserializes(md) THEN Err("BorshIoError", md)
    ELSE IF md.authority # signer THEN Err("InvalidAccountData", md)
    ELSE Serialize(md, [md EXCEPT !.fee_rate = new_rate])

(***************************************************************************)
(* The Verinode proof contract, contracts/src/lib.rs (Soroban).  Its       *)
(* instance storage holds DataKey::Admin, DataKey::ProofCount and one      *)
(* DataKey::Proof(id) per proof.  A call that panics or whose require_auth *)
(* fails is rolled back by the host: the storage is unchanged.             *)
(***************************************************************************)
Issuers == {"alice", "bob"}
EventData == <<5>>
ProofHash == <<6>>

\* the instance storage before any call: no key is set
EmptyStorage == [admin |-> None, proof_count |-> None, proofs |-> EmptyMap]

\* a call that returns value, leaving st in the storage
Return(value, st) == [res |-> "Ok", value |-> value, data |-> st]
\* a call that aborts
Panic(message, st) == [res |-> message, value |-> None, data |-> st]

initialize(st, admin) ==
    IF st.admin # None THEN Panic("Contract already initialized", st)
    ELSE Return(None, [st EXCEPT !.admin = Some(admin), !.proof_count = Some(0)])

\* storage.get(&DataKey::ProofCount).unwrap_or(0)
get_proof_count(st) == IF st.proof_count = None THEN 0 ELSE st.proof_count[1]

issue_proof(st, now, issuer, authorized, event_data, hash) ==
    IF ~authorized THEN Panic("require_auth", st)
    ELSE LET proof_id == get_proof_count(st) + 1
             proof == [id |-> proof_id,
                       issuer |-> issuer,
                       event_data |-> event_data,
                       timestamp |-> now,
                       verified |-> FALSE,
                       hash |-> hash]
         IN Return(proof_id, [st EXCEPT !.proofs = MapInsert(@, proof_id, proof),
                                        !.proof_count = Some(proof_id)])

\* VerinodeContract::verify_proof
verinode_verify_proof(st, admin, authorized, proof_id) ==
    IF st.admin = None THEN Panic("Admin not found", st)
    ELSE IF Some(admin) # st.admin THEN Panic("Not authorized", st)
    ELSE IF ~authorized THEN Panic("require_auth", st)
    ELSE IF ~ContainsKey(st.proofs, proof_id) THEN Panic("Proof not found", st)
    ELSE Return(TRUE, [st EXCEPT !.proofs[proof_id].verified = TRUE])

(***************************************************************************)
(* crossChainBridge.rs: the bridge program of the transfers.  Its handlers *)
(* are modelled like those of the swap program: an operator from the       *)
(* BridgeState in the account and the instruction's inputs to the          *)
(* ProgramResult and the BridgeState left in the account.                  *)
(***************************************************************************)
TransferIds == {"t1", "t2"}
TransferAmount == 5

BridgeChainConfig(chain_id) ==
    [chain_id |-> chain_id, name |-> "chain", rpc_url |-> "rpc",
     bridge_address |-> <<4>>, gas_price |-> 1, block_time |-> BlockTime]
AddChainArgs == {BridgeChainConfig(SourceChain), BridgeChainConfig(TargetChain)}
InitBridgeArgs == [authority : AuthorityKeys, fee_rate : {0}]
InitiateTransferArgs ==
    [transfer_id : TransferIds, from_chain : {SourceChain},
     to_chain : {TargetChain, UnknownChain}, recipient : {<<8>>},
     amount : {TransferAmount}, token_address : {<<7>>}]

DefaultBridgeState ==
    [is_initialized |-> FALSE,
     authority |-> DefaultPubkey,
     supported_chains |-> EmptyMap,
     pending_transfers |-> EmptyMap,
     completed_transfers |-> <<>>,
     total_volume |-> 0,
     fee_rate |-> 0]

\* the digest of the fields generate_transfer_proof hashes, kept as the
\* sequence of those fields: the proof hash is determined by exactly them
generate_transfer_proof(args, timestamp) ==
    <<"sha256", args.transfer_id, args.from_chain, args.to_chain, args.recipient,
      args.amount, args.token_address, timestamp>>

\* lines 128-137: try_from_slice(..).unwrap_or_else(|_| BridgeState {..})
BridgeStateOrDefault(bd) ==
    IF Deserializes(bd) THEN bd ELSE InAccount(DefaultBridgeState, bd.data_len)

initialize_bridge(bd, is_signer, args) ==
    IF ~is_signer THEN Err("MissingRequiredSignature", bd)
    ELSE LET bridge_data0 == BridgeStateOrDefault(bd) IN
         IF bridge_data0.is_initialized THEN Err("AccountAlreadyInitialized", bd)
         ELSE Serialize(bd, [bridge_data0 EXCEPT !.is_initialized = TRUE,
                                                 !.authority = args.authority,
                                                 !.fee_rate = args.fee_rate])

add_supported_chain(bd, signer, is_signer, args) ==
    IF ~is_signer THEN Err("MissingRequiredSignature", bd)
    ELSE IF ~Deserializes(bd) THEN Err("BorshIoError", bd)
    ELSE IF bd.authority # signer THEN Err("InvalidAccountData", bd)
    ELSE Serialize(bd, [bd EXCEPT !.supported_chains = MapInsert(@, args.chain_id, args)])

NewTransfer(now, signer, args) ==
    [transfer_id |-> args.transfer_id,
     from_chain |-> args.from_chain,
     to_chain |-> args.to_chain,
     sender |-> signer,
     recipient |-> args.recipient,
     amount |-> args.amount,
     token_address |-> args.token_address,
     timestamp |-> now,
     status |-> "Pending",
     proof_hash |-> generate_transfer_proof(args, now)]

initiate_transfer(bd, now, signer, is_signer, args) ==
    IF ~is_signer THEN Err("MissingRequiredSignature", bd)
    ELSE IF ~Deserializes(bd) THEN Err("BorshIoError", bd)
    ELSE IF ~ContainsKey(bd.supported_chains, args.from_chain)
            \/ ~ContainsKey(bd.supported_chains, args.to_chain)
    THEN Err("InvalidArgument", bd)
    ELSE Serialize(bd, [bd EXCEPT
             !.pending_transfers =
                 MapInsert(@, args.transfer_id, NewTransfer(now, signer, args)),
             !.total_volume = @ + args.amount])

complete_transfer(bd, signer, is_signer, transfer_id) ==
    IF ~is_signer THEN Err("MissingRequiredSignature", bd)
    ELSE IF ~Deserializes(bd) THEN Err("BorshIoError", bd)
    ELSE IF bd.authority # signer THEN Err("InvalidAccountData", bd)
    ELSE IF ContainsKey(bd.pending_transfers, transfer_id)
    THEN Serialize(bd, [bd EXCEPT
             !.pending_transfers = MapRemove(@, transfer_id),
             !.completed_transfers = Append(@, transfer_id)])
    ELSE Err("InvalidArgument", bd)

refund_transfer(bd, signer, is_signer, transfer_id) ==
    IF ~is_signer THEN Err("MissingRequiredSignature", bd)
    ELSE IF ~Deserializes(bd) THEN Err("BorshIoError", bd)
    ELSE IF bd.authority # signer THEN Err("InvalidAccountData", bd)
    ELSE IF ContainsKey(bd.pending_transfers, transfer_id)
    THEN Serialize(bd, [bd EXCEPT
             !.pending_transfers = MapRemove(@, transfer_id),
             !.completed_transfers = Append(@, transfer_id)])
    ELSE Err("InvalidArgument", bd)

\* update_fee_rate of crossChainBridge.rs
update_bridge_fee_rate(bd, signer, is_signer, new_rate) ==
    IF ~is_signer THEN Err("MissingRequiredSignature", bd)
    ELSE IF ~Deserializes(bd) THEN Err("BorshIoError", bd)
    ELSE IF bd.authority # signer THEN Err("InvalidAccountData", bd)
    ELSE Serialize(bd, [bd EXCEPT !.fee_rate = new_rate])

(***************************************************************************)
(* The bridge contract CrossChainBridge.  crossChainBridge_test.rs calls   *)
(* it (initialize, submit_cross_chain_proof, verify_source_proof,          *)
(* verify_target_proof), but the contract itself is not among the sources: *)
(* crossChainBridge.rs is the bridge program of the transfers.  The calls  *)
(* are modelled from what the tests fix: the chains supported after        *)
(* initialize, proof ids counted from 1, both verification flags false at  *)
(* submission, verification by the admin only, and the abort of            *)
(* verify_target_proof on a proof whose source is not verified.            *)
(***************************************************************************)
BridgeChains == {1, 137, 56}
UnsupportedChain == 999
BridgeProofData == <<7>>

EmptyBridgeStorage ==
    [admin |-> None, proof_count |-> 0, supported_chains |-> {}, proofs |-> EmptyMap]

bridge_initialize(st, admin) ==
    Return(None, [st EXCEPT !.admin = Some(admin), !.proof_count = 0,
                            !.supported_chains = BridgeChains])

submit_cross_chain_proof(st, now, source_chain, target_chain, proof_data, submitter) ==
    IF source_chain \notin st.supported_chains \/ target_chain \notin st.supported_chains
    THEN Panic("Unsupported chain", st)
    ELSE LET proof_id == st.proof_count + 1
             proof == [proof_id |-> proof_id,
                       source_chain |-> source_chain,
                       target_chain |-> target_chain,
                       proof_data |-> proof_data,
                       submitter |-> submitter,
                       timestamp |-> now,
                       source_verification |-> FALSE,
                       target_verification |-> FALSE]
         IN Return(proof_id, [st EXCEPT !.proofs = MapInsert(@, proof_id, proof),
                                        !.proof_count = proof_id])

verify_source_proof(st, admin, proof_id) ==
    IF Some(admin) # st.admin THEN Panic("Not authorized", st)
    ELSE IF ~ContainsKey(st.proofs, proof_id) THEN Panic("Proof not found", st)
    ELSE Return(TRUE, [st EXCEPT !.proofs[proof_id].source_verification = TRUE])

\* verify_target_proof without the test of source_verification
verify_target_proof_unordered(st, admin, proof_id) ==
    IF Some(admin) # st.admin THEN Panic("Not authorized", st)
    ELSE IF ~ContainsKey(st.proofs, proof_id) THEN Panic("Proof not found", st)
    ELSE Return(TRUE, [st EXCEPT !.proofs[proof_id].target_verification = TRUE])

verify_target_proof(st, admin, proof_id) ==
    IF Some(admin) # st.admin THEN Panic("Not authorized", st)
    ELSE IF ~ContainsKey(st.proofs, proof_id) THEN Panic("Proof not found", st)
    ELSE IF ~st.proofs[proof_id].source_verification
    THEN Panic("Source proof must be verified first", st)
    ELSE Return(TRUE, [st EXCEPT !.proofs[proof_id].target_verification = TRUE])

(***************************************************************************)
(* The state machine: one action per instruction of process_instruction,   *)
(* and the passing of ledger time.                                         *)
(***************************************************************************)
NoCall == [op |-> "none", res |-> "Ok"]

Call(op, r) == [op |-> op, res |-> r.res]

InitSwapArgs ==
    [swap_id : SwapIds, initiator_chain : {1}, participant_chain : {2},
     initiator_asset : {TheAsset}, participant_asset : {TheAsset},
     secret_hash : SecretHashes, timelock : Timelocks]
ParticipateSwapArgs == [swap_id : SwapIds, participant : Participants]
DepositArgs ==
    [swap_id : SwapIds, transaction_hash : {TheDepositArgs.transaction_hash},
     block_number : {TheDepositArgs.block_number}, proof : {TheDepositArgs.proof}]
RedeemArgs == [swap_id : SwapIds, secret : Secrets]
RefundArgs == [swap_id : SwapIds, is_initiator : BOOLEAN]
FeeRates == {2 * DefaultFeeRate}

(***************************************************************************)
(* The accounts the behaviours of a program start from.  A new account is  *)
(* all zeros and has the length its creator chose.                         *)
(***************************************************************************)
LargeAccount == 2048   \* the length of an account longer than every state

\* a new account of each length: one byte too short for the zero state,
\* exactly as long, and longer
ZeroedAccounts(zero_state) ==
    {InAccount(zero_state, n) :
        n \in {BorshSize(zero_state) - 1, BorshSize(zero_state), LargeAccount}}

\* the account of exactly the length of the state it holds
Refit(state) == InAccount(state, BorshSize(state))

\* the storage of the contracts, the ledger time and the last call at the
\* start of a behaviour
OtherAccounts ==
    /\ storage = EmptyStorage
    /\ bridge_storage = EmptyBridgeStorage
    /\ clock = ClockStart
    /\ result = NoCall
    /\ input = None

\* new accounts and contracts, for the behaviours that apply a function to
\* arguments and run no instruction
NoInstructions ==
    /\ swap_data = Refit(ZeroSwapState)
    /\ verifier_data = Refit(DefaultVerificationState)
    /\ message_data = Refit(DefaultMessagePassingState)
    /\ bridge_data = Refit(DefaultBridgeState)
    /\ storage = EmptyStorage
    /\ bridge_storage = EmptyBridgeStorage
    /\ program = "any"

NewSwapAccount == swap_data = Refit(ZeroSwapState)
NewVerifierAccount == verifier_data = Refit(DefaultVerificationState)
NewMessageAccount == message_data = Refit(DefaultMessagePassingState)
NewBridgeAccount == bridge_data = Refit(DefaultBridgeState)

\* the accounts of the programs a behaviour does not run: new accounts
NewAccounts ==
    /\ NewSwapAccount /\ NewVerifierAccount /\ NewMessageAccount /\ NewBridgeAccount
    /\ OtherAccounts
    /\ program = "any"

Init ==
    /\ swap_data \in ZeroedAccounts(ZeroSwapState)
    /\ NewVerifierAccount /\ NewMessageAccount /\ NewBridgeAccount
    /\ OtherAccounts
    /\ program = "any"

InitializeSwapState ==
    \E s \in Signers, authority \in AuthorityKeys :
        LET r == initialize_swap_state(swap_data, s[2], authority) IN
        /\ swap_data' \in Commit(r, swap_data)
        /\ result' = Call("initialize_swap_state", r)
        /\ UNCHANGED <<clock, not_swap>>

InitiateSwap ==
    \E s \in Initiators, args \in InitSwapArgs :
        LET r == initiate_swap(swap_data, clock, s[1], s[2], args) IN
        /\ swap_data.swap_stats.total_swaps < MaxSwaps
        /\ swap_data' \in Commit(r, swap_data)
        /\ result' = Call("initiate_swap", r)
        /\ UNCHANGED <<clock, not_swap>>

ParticipateSwap ==
    \E s \in Signers, args \in ParticipateSwapArgs :
        LET r == participate_swap(swap_data, s[1], s[2], args) IN
        /\ swap_data' \in Commit(r, swap_data)
        /\ result' = Call("participate_swap", r)
        /\ UNCHANGED <<clock, not_swap>>

Deposit ==
    \E s \in Signers, args \in DepositArgs :
        LET r == deposit(swap_data, clock, s[1], s[2], args) IN
        /\ swap_data' \in Commit(r, swap_data)
        /\ result' = Call("deposit", r)
        /\ UNCHANGED <<clock, not_swap>>

Redeem ==
    \E s \in Signers, args \in RedeemArgs :
        LET r == redeem(swap_data, clock, s[1], s[2], args) IN
        /\ swap_data' \in Commit(r, swap_data)
        /\ result' = Call("redeem", r)
        /\ UNCHANGED <<clock, not_swap>>

Refund ==
    \E s \in Signers, args \in RefundArgs :
        LET r == refund(swap_data, clock, s[1], s[2], args) IN
        /\ swap_data' \in Commit(r, swap_data)
        /\ result' = Call("refund", r)
        /\ UNCHANGED <<clock, not_swap>>

CancelSwap ==
    \E s \in Signers, swap_id \in SwapIds :
        LET r == cancel_swap(swap_data, s[1], s[2], swap_id) IN
        /\ swap_data' \in Commit(r, swap_data)
        /\ result' = Call("cancel_swap", r)
        /\ UNCHANGED <<clock, not_swap>>

UpdateFeeRate ==
    \E s \in Signers, new_rate \in FeeRates :
        LET r == update_fee_rate(swap_data, s[1], s[2], new_rate) IN
        /\ swap_data' \in Commit(r, swap_data)
        /\ result' = Call("update_fee_rate", r)
        /\ UNCHANGED <<clock, not_swap>>

AdvanceClock ==
    /\ \E t \in ClockPoints : t > clock /\ clock' = t
    /\ UNCHANGED <<swap_data, not_swap, result>>

Next ==
    \/ InitializeSwapState
    \/ InitiateSwap
    \/ ParticipateSwap
    \/ Deposit
    \/ Redeem
    \/ Refund
    \/ CancelSwap
    \/ UpdateFeeRate
    \/ AdvanceClock

Spec == Init /\ [][Next]_vars

(***************************************************************************)
(* The specification of the swap handlers.  In the behaviours of Spec no   *)
(* swap is ever read back: an account is read only when it is exactly as   *)
(* long as the state in it, and a state with one more swap is longer. What *)
(* handlers do with a swap is therefore specified of the handlers as       *)
(* functions of the account they are given.  The behaviours of             *)
(* SpecSwapHandlers run the instructions of Spec; they start from the new  *)
(* accounts and from accounts that hold a state with the default limits    *)
(* and a swap.  These accounts are arguments of the handlers, not states   *)
(* that the program reaches from a new account.  Their states are built by *)
(* the handlers themselves, one call after another from the default state, *)
(* and each is put in an account of exactly its length, or a longer one.   *)
(***************************************************************************)
\* a state in the account of its length, and in a longer account
Holding(state) == {Refit(state), InAccount(state, LargeAccount)}

\* lines 176-187 and 189-190: the default state with the limits 3600 and
\* 604800, as initialize_swap_state marks and signs it
ConfiguredSwapState ==
    [DefaultSwapState EXCEPT !.is_initialized = TRUE, !.authority = "admin"]

TheInitSwapArgs ==
    [swap_id |-> "s1", initiator_chain |-> 1, participant_chain |-> 2,
     initiator_asset |-> TheAsset, participant_asset |-> TheAsset,
     secret_hash |-> Sha256(<<1>>), timelock |-> DefaultMinTimelock]

\* the states the handlers serialize when they are given the account sd,
\* each in an account of its length: alice initiates at ClockStart, deposits
\* and redeems are made at ClockStart, refunds when the timelock has run out
SwapBuilt(sd) ==
    LET calls ==
            (IF sd.swap_stats.total_swaps < MaxSwaps
             THEN {initiate_swap(sd, ClockStart, "alice", TRUE, TheInitSwapArgs)}
             ELSE {})
            \cup {participate_swap(sd, s[1], s[2], a) :
                      s \in Signers, a \in ParticipateSwapArgs}
            \cup {deposit(sd, ClockStart, s[1], s[2], a) :
                      s \in Signers, a \in DepositArgs}
            \cup {redeem(sd, ClockStart, s[1], s[2], a) :
                      s \in Signers, a \in RedeemArgs}
            \cup {refund(sd, ClockStart + DefaultMinTimelock, s[1], s[2], a) :
                      s \in Signers, a \in RefundArgs}
            \cup {cancel_swap(sd, s[1], s[2], id) : s \in Signers, id \in SwapIds}
    IN {Refit(r.data) : r \in {x \in calls : x.data # sd}}

\* the accounts that hold, in exactly their length, the states that rounds
\* handler calls build one after another from those of frontier
RECURSIVE SwapStates(_, _, _)
SwapStates(frontier, seen, rounds) ==
    IF rounds = 0 \/ frontier = {} THEN seen
    ELSE LET new == UNION {SwapBuilt(sd) : sd \in frontier} \ seen
         IN SwapStates(new, seen \cup new, rounds - 1)

SwapRounds == 5   \* handler calls that built the state of an account a handler is given

\* the accounts the swap handlers are given
SwapInputs ==
    ZeroedAccounts(ZeroSwapState)
    \cup UNION {Holding(sd) :
                   sd \in SwapStates({Refit(ConfiguredSwapState)},
                                     {Refit(ConfiguredSwapState)}, SwapRounds)}

InitSwapHandlers ==
    /\ swap_data \in SwapInputs
    /\ NewVerifierAccount /\ NewMessageAccount /\ NewBridgeAccount
    /\ OtherAccounts
    /\ program = "any"

SpecSwapHandlers == InitSwapHandlers /\ [][Next]_vars

(***************************************************************************)
(* The expiry sweep.  atomicSwap.rs has no sweep instruction: SwapStatus   *)
(* declares Expired and SwapStats counts expired_swaps, but no handler     *)
(* writes either.  The sweep is therefore modelled from the program's      *)
(* specification (section 4.2 "expire", section 8 "Idempotence") over the  *)
(* SwapState of atomicSwap.rs: a Funded swap is one whose status is        *)
(* Deposited, its timeout is expires_at, the active index is active_swaps. *)
(* The sweep takes no signer; it returns the swaps it expired and stores   *)
(* the state as the handlers do.                                           *)
(***************************************************************************)
SweepDue(now, atomic_swap) ==
    atomic_swap.status = "Deposited" /\ now > atomic_swap.expires_at

\* a sweep that tests the timeout only, and so expires unfunded swaps too
expire_swaps_any_status(sd, now) ==
    LET due == {id \in DOMAIN sd.active_swaps :
                  now > sd.active_swaps[id].expires_at} IN
    [res |-> "Ok",
     expired |-> {[sd.active_swaps[id] EXCEPT !.status = "Expired"] : id \in due},
     data |-> Serialize(sd, [sd EXCEPT
                  !.active_swaps = [id \in DOMAIN @ \ due |-> @[id]],
                  !.swap_stats.expired_swaps = @ + Cardinality(due)]).data]

expire_swaps(sd, now) ==
    LET due == {id \in DOMAIN sd.active_swaps :
                  SweepDue(now, sd.active_swaps[id])} IN
    [res |-> "Ok",
     expired |-> {[sd.active_swaps[id] EXCEPT !.status = "Expired"] : id \in due},
     data |-> Serialize(sd, [sd EXCEPT
                  !.active_swaps = [id \in DOMAIN @ \ due |-> @[id]],
                  !.swap_stats.expired_swaps = @ + Cardinality(due)]).data]

ExpireSwaps ==
    LET r == expire_swaps(swap_data, clock) IN
    /\ swap_data' \in Commit(r, swap_data)
    /\ result' = Call("expire_swaps", r)
    /\ UNCHANGED <<clock, not_swap>>

NextExpire ==
    \/ Next
    \/ ExpireSwaps

SpecExpire == InitSwapHandlers /\ [][NextExpire]_vars

(***************************************************************************)
(* The chain verifier's state machine: one action per instruction of its   *)
(* process_instruction, and the passing of ledger time.                    *)
(***************************************************************************)
MaxVerifications == 3  \* successful verify_proof / verify_cross_chain_proof calls explored

Verifications ==
    verifier_data.verification_stats.total_verified
    + verifier_data.verification_stats.total_failed

\* the ledger time passes the age limit of a proof stamped at ClockStart
VerifierClockPoints == {ClockStart + BlockTime * StalenessBlocks + 1}

InitVerifier ==
    /\ verifier_data \in ZeroedAccounts(DefaultVerificationState)
    /\ NewSwapAccount /\ NewMessageAccount /\ NewBridgeAccount
    /\ OtherAccounts
    /\ program = "any"

InitializeVerifier ==
    \E s \in Signers, authority \in AuthorityKeys :
        LET r == initialize_verifier(verifier_data, s[2], authority) IN
        /\ verifier_data' \in Commit(r, verifier_data)
        /\ result' = Call("initialize_verifier", r)
        /\ UNCHANGED <<clock, not_verifier>>

AddChainConfig ==
    \E s \in Signers, args \in AddChainConfigArgs :
        LET r == add_chain_config(verifier_data, s[1], s[2], args) IN
        /\ verifier_data' \in Commit(r, verifier_data)
        /\ result' = Call("add_chain_config", r)
        /\ UNCHANGED <<clock, not_verifier>>

SubmitProof ==
    \E s \in Signers, args \in SubmitProofArgs \cup {UnknownChainSubmit} :
        LET r == submit_proof(verifier_data, clock, s[1], s[2], args) IN
        /\ verifier_data' \in Commit(r, verifier_data)
        /\ result' = Call("submit_proof", r)
        /\ UNCHANGED <<clock, not_verifier>>

VerifyProof ==
    \E s \in Signers, proof_id \in ProofIds :
        LET r == verify_proof(verifier_data, clock, s[1], s[2], proof_id) IN
        /\ Verifications < MaxVerifications
        /\ verifier_data' \in Commit(r, verifier_data)
        /\ result' = Call("verify_proof", r)
        /\ UNCHANGED <<clock, not_verifier>>

VerifyCrossChainProof ==
    \E s \in Signers, args \in VerifyCrossChainProofArgs :
        LET r == verify_cross_chain_proof(verifier_data, clock, s[1], s[2], args) IN
        /\ Verifications < MaxVerifications
        /\ verifier_data' \in Commit(r, verifier_data)
        /\ result' = Call("verify_cross_chain_proof", r)
        /\ UNCHANGED <<clock, not_verifier>>

\* the bytes after the discriminator in the data of an
\* UpdateVerificationStatus instruction that names proof_id: the encoding
\* of proof_id alone, or followed by the tag of the result
UpdateVerificationStatusData(proof_id) ==
    {U32Size + Len(proof_id), U32Size + Len(proof_id) + 1}

\* lines 578-584: the decoder reads proof_id with String::try_from_slice
\* from all rest bytes after the discriminator, which must then be exactly
\* its u32 length and its characters, and the result with
\* VerificationResult::try_from_slice from the bytes after the first
\* proof_id.len() of them, which must be exactly the one-byte tag
DecodesUpdateVerificationStatus(rest, proof_id) ==
    /\ rest = U32Size + Len(proof_id)
    /\ rest - Len(proof_id) = 1

UpdateVerificationStatus ==
    \E s \in Signers, proof_id \in ProofIds, res \in OverrideResults :
      \E rest \in UpdateVerificationStatusData(proof_id) :
        LET r == IF DecodesUpdateVerificationStatus(rest, proof_id)
                 THEN update_verification_status(verifier_data, clock, s[1], s[2],
                                                 proof_id, res)
                 ELSE Err("InvalidInstructionData", verifier_data) IN
        /\ verifier_data' \in Commit(r, verifier_data)
        /\ result' = Call("update_verification_status", r)
        /\ UNCHANGED <<clock, not_verifier>>

AdvanceVerifierClock ==
    /\ \E t \in VerifierClockPoints : t > clock /\ clock' = t
    /\ UNCHANGED <<verifier_data, not_verifier, result>>

NextVerifier ==
    \/ InitializeVerifier
    \/ AddChainConfig
    \/ SubmitProof
    \/ VerifyProof
    \/ VerifyCrossChainProof
    \/ UpdateVerificationStatus
    \/ AdvanceVerifierClock

SpecVerifier == InitVerifier /\ [][NextVerifier]_vars

(***************************************************************************)
(* The specification of the verifier's handlers.  In the behaviours of     *)
(* SpecVerifier no chain is configured and no proof is stored, since the   *)
(* state with one more entry does not fit the account it was read from.    *)
(* The behaviours of SpecVerifierHandlers run the same instructions and    *)
(* start from the new accounts and from accounts that hold a state with    *)
(* configured chains and proofs.  These accounts are arguments of the      *)
(* handlers, not states that the program reaches from a new account.       *)
(* Their states are built by the handlers themselves, one call after       *)
(* another from the default state, each put in an account of its length.   *)
(***************************************************************************)
\* the states the handlers serialize when they are given the account vd,
\* each in an account of its length
VerifierBuilt(vd) ==
    LET now == ClockStart
        calls ==
            {add_chain_config(vd, s[1], s[2], a) : s \in Signers, a \in AddChainConfigArgs}
            \cup {submit_proof(vd, now, s[1], s[2], a) :
                      s \in Signers, a \in SubmitProofArgs}
            \cup (IF vd.verification_stats.total_verified
                        + vd.verification_stats.total_failed < MaxVerifications
                  THEN {verify_proof(vd, t, s[1], s[2], id) :
                           s \in Signers, id \in ProofIds,
                           t \in {ClockStart} \cup VerifierClockPoints}
                       \cup {verify_cross_chain_proof(vd, now, s[1], s[2], a) :
                                 s \in Signers, a \in VerifyCrossChainProofArgs}
                  ELSE {})
    IN {Refit(r.data) : r \in {x \in calls : x.data # vd}}

\* the accounts that hold, in exactly their length, the states that rounds
\* handler calls build one after another from those of frontier
RECURSIVE VerifierStates(_, _, _)
VerifierStates(frontier, seen, rounds) ==
    IF rounds = 0 \/ frontier = {} THEN seen
    ELSE LET new == UNION {VerifierBuilt(vd) : vd \in frontier} \ seen
         IN VerifierStates(new, seen \cup new, rounds - 1)

VerifierRounds == 5   \* handler calls that built the state of an account a handler is given

\* lines 206-216: the default state, as initialize_verifier marks and signs it
ConfiguredVerificationState ==
    [DefaultVerificationState EXCEPT !.is_initialized = TRUE, !.authority = "admin"]

\* the accounts the verifier's handlers are given
VerifierInputs ==
    ZeroedAccounts(DefaultVerificationState)
    \cup {InAccount(ConfiguredVerificationState, LargeAccount)}
    \cup VerifierStates({Refit(ConfiguredVerificationState)},
                        {Refit(ConfiguredVerificationState)}, VerifierRounds)

InitVerifierHandlers ==
    /\ verifier_data \in VerifierInputs
    /\ NewSwapAccount /\ NewMessageAccount /\ NewBridgeAccount
    /\ OtherAccounts
    /\ program = "any"

SpecVerifierHandlers == InitVerifierHandlers /\ [][NextVerifier]_vars

(***************************************************************************)
(* The message passing state machine: one action per instruction of its    *)
(* process_instruction, and the passing of ledger time.                    *)
(***************************************************************************)
MaxMessages == 2  \* successful send_message calls explored

\* the program starts with the default fee rate 0; update_fee_rate sets one
\* of MessageFeeRates
InitMessagePassingArgs == [authority : AuthorityKeys, fee_rate : {0}]

InitializeMessagePassing ==
    \E s \in Signers, args \in InitMessagePassingArgs :
        LET r == initialize_message_passing(message_data, s[2], args) IN
        /\ message_data' \in Commit(r, message_data)
        /\ result' = Call("initialize_message_passing", r)
        /\ UNCHANGED <<clock, not_message>>

AddChainMessageConfig ==
    \E s \in Signers, args \in AddChainMessageConfigArgs :
        LET r == add_chain_message_config(message_data, s[1], s[2], args) IN
        /\ message_data' \in Commit(r, message_data)
        /\ result' = Call("add_chain_message_config", r)
        /\ UNCHANGED <<clock, not_message>>

SendMessage ==
    \E s \in Senders, args \in SendMessageArgs :
        LET r == send_message(message_data, clock, s[1], s[2], args) IN
        /\ message_data.message_stats.total_messages < MaxMessages
        /\ message_data' \in Commit(r, message_data)
        /\ result' = Call("send_message", r)
        /\ UNCHANGED <<clock, not_message>>

RelayMessage ==
    \E s \in Signers, args \in RelayMessageArgs :
        LET r == relay_message(message_data, clock, s[1], s[2], args) IN
        /\ message_data' \in Commit(r, message_data)
        /\ result' = Call("relay_message", r)
        /\ UNCHANGED <<clock, not_message>>

ExecuteMessage ==
    \E s \in Signers, args \in ExecuteMessageArgs :
        LET r == execute_message(message_data, clock, s[1], s[2], args) IN
        /\ message_data' \in Commit(r, message_data)
        /\ result' = Call("execute_message", r)
        /\ UNCHANGED <<clock, not_message>>

RegisterRelayer ==
    \E s \in {x \in Signers : x[1] \in RelayerKeys}, args \in RegisterRelayerArgs :
        LET r == register_relayer(message_data, s[1], s[2], args) IN
        /\ message_data' \in Commit(r, message_data)
        /\ result' = Call("register_relayer", r)
        /\ UNCHANGED <<clock, not_message>>

\* the bytes after the discriminator in the data of an UpdateRelayerStatus
\* instruction: the relayer's Pubkey alone, or followed by the bool
UpdateRelayerStatusData == {PubkeySize, PubkeySize + 1}

\* lines 695-700: the decoder reads the address with Pubkey::try_from_slice
\* from all rest bytes after the discriminator, which must then be exactly
\* the 32 bytes of a Pubkey, and is_active with bool::try_from_slice from
\* the bytes after the first 32 of them, which must be exactly one byte
DecodesUpdateRelayerStatus(rest) ==
    /\ rest = PubkeySize
    /\ rest - PubkeySize = 1

UpdateRelayerStatus ==
    \E s \in Signers, relayer_address \in StatusKeys, is_active \in BOOLEAN :
      \E rest \in UpdateRelayerStatusData :
        LET r == IF DecodesUpdateRelayerStatus(rest)
                 THEN update_relayer_status(message_data, s[1], s[2],
                                            relayer_address, is_active)
                 ELSE Err("InvalidInstructionData", message_data) IN
        /\ message_data' \in Commit(r, message_data)
        /\ result' = Call("update_relayer_status", r)
        /\ UNCHANGED <<clock, not_message>>

UpdateMessageFeeRate ==
    \E s \in Signers, new_rate \in MessageFeeRates :
        LET r == update_message_fee_rate(message_data, s[1], s[2], new_rate) IN
        /\ message_data' \in Commit(r, message_data)
        /\ result' = Call("update_fee_rate", r)
        /\ UNCHANGED <<clock, not_message>>

InitMessages ==
    /\ message_data \in ZeroedAccounts(DefaultMessagePassingState)
    /\ NewSwapAccount /\ NewVerifierAccount /\ NewBridgeAccount
    /\ OtherAccounts
    /\ program = "any"

\* the ledger time moves on between two instructions
MessageClockPoints == {ClockStart + MessageDelay}

AdvanceMessageClock ==
    /\ \E t \in MessageClockPoints : t > clock /\ clock' = t
    /\ UNCHANGED <<message_data, not_message, result>>

NextMessages ==
    \/ InitializeMessagePassing
    \/ AddChainMessageConfig
    \/ SendMessage
    \/ RelayMessage
    \/ ExecuteMessage
    \/ RegisterRelayer
    \/ UpdateRelayerStatus
    \/ UpdateMessageFeeRate
    \/ AdvanceMessageClock

SpecMessages == InitMessages /\ [][NextMessages]_vars

(***************************************************************************)
(* The specification of the message handlers.  In the behaviours of        *)
(* SpecMessages no chain is configured, no relayer is registered and no    *)
(* message is stored, since the state with one more entry does not fit the *)
(* account it was read from.  The behaviours of SpecMessageHandlers run    *)
(* the same instructions and start from the new accounts and from accounts *)
(* that hold a state with chains, relayers and messages.  These accounts   *)
(* are arguments of the handlers, not states that the program reaches from *)
(* a new account.  Their states are built by the handlers themselves, one  *)
(* call after another from the default state, each put in an account of    *)
(* its length.                                                             *)
(***************************************************************************)
\* the states the handlers serialize when they are given the account md,
\* each in an account of its length.  update_relayer_status is among the
\* handlers although no instruction data decodes to it (UpdateRelayerStatus
\* below): it is the only code that clears is_active, which relay_message
\* tests.
MessageBuilt(md) ==
    LET now == ClockStart
        calls ==
            {add_chain_message_config(md, s[1], s[2], a) :
                s \in Signers, a \in AddChainMessageConfigArgs}
            \cup (IF md.message_stats.total_messages < MaxMessages
                  THEN {send_message(md, now, s[1], s[2], a) :
                           s \in Senders, a \in SendMessageArgs}
                  ELSE {})
            \cup {relay_message(md, now, s[1], s[2], a) :
                      s \in Signers, a \in RelayMessageArgs}
            \cup {execute_message(md, now, s[1], s[2], a) :
                      s \in Signers, a \in ExecuteMessageArgs}
            \cup {register_relayer(md, s[1], s[2], a) :
                      s \in {x \in Signers : x[1] \in RelayerKeys},
                      a \in RegisterRelayerArgs}
            \cup {update_relayer_status(md, s[1], s[2], k, b) :
                      s \in Signers, k \in StatusKeys, b \in BOOLEAN}
            \cup {update_message_fee_rate(md, s[1], s[2], f) :
                      s \in Signers, f \in MessageFeeRates}
    IN {Refit(r.data) : r \in {x \in calls : x.data # md}}

\* the accounts that hold, in exactly their length, the states that rounds
\* handler calls build one after another from those of frontier
RECURSIVE MessageStates(_, _, _)
MessageStates(frontier, seen, rounds) ==
    IF rounds = 0 \/ frontier = {} THEN seen
    ELSE LET new == UNION {MessageBuilt(md) : md \in frontier} \ seen
         IN MessageStates(new, seen \cup new, rounds - 1)

MessageRounds == 8   \* handler calls that built the state of an account a handler is given

\* lines 233-250: the default state, as initialize_message_passing marks and
\* signs it
ConfiguredMessagePassingState ==
    [DefaultMessagePassingState EXCEPT !.is_initialized = TRUE, !.authority = "admin"]

\* the accounts the message handlers are given
MessageInputs ==
    ZeroedAccounts(DefaultMessagePassingState)
    \cup {InAccount(ConfiguredMessagePassingState, LargeAccount)}
    \cup MessageStates({Refit(ConfiguredMessagePassingState)},
                       {Refit(ConfiguredMessagePassingState)}, MessageRounds)

InitMessageHandlers ==
    /\ message_data \in MessageInputs
    /\ NewSwapAccount /\ NewVerifierAccount /\ NewBridgeAccount
    /\ OtherAccounts
    /\ program = "any"

SpecMessageHandlers == InitMessageHandlers /\ [][NextMessages]_vars

(***************************************************************************)
(* The Verinode proof contract's state machine: one action per contract    *)
(* function that writes, and the passing of ledger time.                   *)
(***************************************************************************)
MaxProofs == 2  \* successful issue_proof calls explored

\* the proof ids verify_proof is called with: every id issued within the
\* bound, and one more
VerifyIds == 1 .. (MaxProofs + 1)

Initialize ==
    \E admin \in AuthorityKeys \cup {"alice"} :
        LET r == initialize(storage, admin) IN
        /\ storage' = r.data
        /\ result' = Call("initialize", r)
        /\ UNCHANGED <<clock, not_storage>>

IssueProof ==
    \E s \in Signers :
        LET r == issue_proof(storage, clock, s[1], s[2], EventData, ProofHash) IN
        /\ s[1] \in Issuers
        /\ get_proof_count(storage) < MaxProofs
        /\ storage' = r.data
        /\ result' = Call("issue_proof", r)
        /\ UNCHANGED <<clock, not_storage>>

VerinodeVerifyProof ==
    \E s \in Signers, proof_id \in VerifyIds :
        LET r == verinode_verify_proof(storage, s[1], s[2], proof_id) IN
        /\ storage' = r.data
        /\ result' = Call("verify_proof", r)
        /\ UNCHANGED <<clock, not_storage>>

AdvanceLedger ==
    /\ \E t \in MessageClockPoints : t > clock /\ clock' = t
    /\ UNCHANGED <<storage, not_storage, result>>

NextVerinode ==
    \/ Initialize
    \/ IssueProof
    \/ VerinodeVerifyProof
    \/ AdvanceLedger

SpecVerinode == NewAccounts /\ [][NextVerinode]_vars

(***************************************************************************)
(* The bridge program's state machine: one action per instruction of its   *)
(* process_instruction, and the passing of ledger time.                    *)
(***************************************************************************)
MaxTransfers == 3      \* successful initiate_transfer calls explored

InitBridge ==
    /\ bridge_data \in ZeroedAccounts(DefaultBridgeState)
    /\ NewSwapAccount /\ NewVerifierAccount /\ NewMessageAccount
    /\ OtherAccounts
    /\ program = "any"

InitializeBridge ==
    \E s \in Signers, args \in InitBridgeArgs :
        LET r == initialize_bridge(bridge_data, s[2], args) IN
        /\ bridge_data' \in Commit(r, bridge_data)
        /\ result' = Call("initialize_bridge", r)
        /\ UNCHANGED <<clock, not_bridge>>

AddSupportedChain ==
    \E s \in Signers, args \in AddChainArgs :
        LET r == add_supported_chain(bridge_data, s[1], s[2], args) IN
        /\ bridge_data' \in Commit(r, bridge_data)
        /\ result' = Call("add_supported_chain", r)
        /\ UNCHANGED <<clock, not_bridge>>

InitiateTransfer ==
    \E s \in Senders, args \in InitiateTransferArgs :
        LET r == initiate_transfer(bridge_data, clock, s[1], s[2], args) IN
        /\ bridge_data.total_volume < MaxTransfers * TransferAmount
        /\ bridge_data' \in Commit(r, bridge_data)
        /\ result' = Call("initiate_transfer", r)
        /\ UNCHANGED <<clock, not_bridge>>

CompleteTransfer ==
    \E s \in Signers, transfer_id \in TransferIds :
        LET r == complete_transfer(bridge_data, s[1], s[2], transfer_id) IN
        /\ bridge_data' \in Commit(r, bridge_data)
        /\ result' = Call("complete_transfer", r)
        /\ UNCHANGED <<clock, not_bridge>>

RefundTransfer ==
    \E s \in Signers, transfer_id \in TransferIds :
        LET r == refund_transfer(bridge_data, s[1], s[2], transfer_id) IN
        /\ bridge_data' \in Commit(r, bridge_data)
        /\ result' = Call("refund_transfer", r)
        /\ UNCHANGED <<clock, not_bridge>>

UpdateBridgeFeeRate ==
    \E s \in Signers, new_rate \in MessageFeeRates :
        LET r == update_bridge_fee_rate(bridge_data, s[1], s[2], new_rate) IN
        /\ bridge_data' \in Commit(r, bridge_data)
        /\ result' = Call("update_fee_rate", r)
        /\ UNCHANGED <<clock, not_bridge>>

AdvanceBridgeClock ==
    /\ \E t \in MessageClockPoints : t > clock /\ clock' = t
    /\ UNCHANGED <<bridge_data, not_bridge, result>>

NextBridge ==
    \/ InitializeBridge
    \/ AddSupportedChain
    \/ InitiateTransfer
    \/ CompleteTransfer
    \/ RefundTransfer
    \/ UpdateBridgeFeeRate
    \/ AdvanceBridgeClock

SpecBridge == InitBridge /\ [][NextBridge]_vars

(***************************************************************************)
(* The bridge contract's state machine.  initialize is called once, on the *)
(* empty storage, as in every test.                                        *)
(***************************************************************************)
MaxBridgeProofs == 2   \* successful submit_cross_chain_proof calls explored
BridgeProofIds == 1 .. (MaxBridgeProofs + 1)
BridgeCallers == {"admin", "alice"}

BridgeInitialize ==
    \E admin \in AuthorityKeys :
        LET r == bridge_initialize(bridge_storage, admin) IN
        /\ bridge_storage.admin = None
        /\ bridge_storage' = r.data
        /\ result' = Call("initialize", r)
        /\ UNCHANGED <<clock, not_bridge_storage>>

SubmitCrossChainProof ==
    \E source_chain \in {1, 137}, target_chain \in {137, UnsupportedChain},
       submitter \in {"alice"} :
        LET r == submit_cross_chain_proof(bridge_storage, clock, source_chain,
                                          target_chain, BridgeProofData, submitter) IN
        /\ bridge_storage.admin # None
        /\ bridge_storage.proof_count < MaxBridgeProofs
        /\ bridge_storage' = r.data
        /\ result' = Call("submit_cross_chain_proof", r)
        /\ UNCHANGED <<clock, not_bridge_storage>>

VerifySourceProof ==
    \E admin \in BridgeCallers, proof_id \in BridgeProofIds :
        LET r == verify_source_proof(bridge_storage, admin, proof_id) IN
        /\ bridge_storage.admin # None
        /\ bridge_storage' = r.data
        /\ result' = Call("verify_source_proof", r)
        /\ UNCHANGED <<clock, not_bridge_storage>>

VerifyTargetProof ==
    \E admin \in BridgeCallers, proof_id \in BridgeProofIds :
        LET r == verify_target_proof(bridge_storage, admin, proof_id) IN
        /\ bridge_storage.admin # None
        /\ bridge_storage' = r.data
        /\ result' = Call("verify_target_proof", r)
        /\ UNCHANGED <<clock, not_bridge_storage>>

AdvanceBridgeLedger ==
    /\ \E t \in MessageClockPoints : t > clock /\ clock' = t
    /\ UNCHANGED <<bridge_storage, not_bridge_storage, result>>

NextBridgeContract ==
    \/ BridgeInitialize
    \/ SubmitCrossChainProof
    \/ VerifySourceProof
    \/ VerifyTargetProof
    \/ AdvanceBridgeLedger

SpecBridgeContract == NewAccounts /\ [][NextBridgeContract]_vars

(***************************************************************************)
(* The three programs that keep an authority, side by side: a behaviour    *)
(* is a behaviour of one of them, named by program.                        *)
(***************************************************************************)
Programs == {"atomicSwap", "messagePassing", "lib"}

InitPrograms ==
    /\ program \in Programs
    /\ IF program = "atomicSwap" THEN swap_data \in ZeroedAccounts(ZeroSwapState)
                                  ELSE NewSwapAccount
    /\ IF program = "messagePassing" THEN message_data \in ZeroedAccounts(DefaultMessagePassingState)
       ELSE NewMessageAccount
    /\ NewVerifierAccount /\ NewBridgeAccount
    /\ OtherAccounts

NextPrograms ==
    \/ program = "atomicSwap" /\ Next
    \/ program = "messagePassing" /\ NextMessages
    \/ program = "lib" /\ NextVerinode

SpecPrograms == InitPrograms /\ [][NextPrograms]_vars

(***************************************************************************)
(* The verdict functions of the chain verifier, applied to arguments: a    *)
(* proof and a map of chain configurations (input), at a ledger time       *)
(* (clock).  No instruction runs in these behaviours.                      *)
(***************************************************************************)
\* the times a verdict is computed at: the stamp of the proof, and the times
\* at and right after confirmation_blocks * block_time and
\* StalenessBlocks * block_time later
VerdictTimes ==
    {ClockStart} \cup
    {ClockStart + BlockTime * n + d : n \in {ConfirmationBlocks, StalenessBlocks},
                                      d \in {0, 1}}

\* chain configurations: none, the source chain alone, the source chain with
\* the target chain at trust level 4 and at trust level 5
VerdictChains ==
    LET source == MapInsert(EmptyMap, SourceChain,
                            ChainConfig(SourceChain, MinTrustLevel)) IN
    {EmptyMap, source}
    \cup {MapInsert(source, TargetChain, ChainConfig(TargetChain, l)) :
             l \in {MinTrustLevel - 1, MinTrustLevel}}

VerdictInputs == [chain_proof : ChainProofs, supported_chains : VerdictChains]

InitVerdict ==
    /\ input \in VerdictInputs
    /\ clock = ClockStart
    /\ result = NoCall
    /\ NoInstructions

PerformVerification ==
    /\ result' = [op |-> "perform_verification",
                  res |-> perform_verification(input.chain_proof,
                                               input.supported_chains, clock)]
    /\ UNCHANGED <<clock, input, accounts>>

VerifyCrossChainValidity ==
    \E source_chain_id \in ChainIds \cup {UnknownChain},
       target_chain_id \in ChainIds \cup {UnknownChain} :
        /\ result' = [op |-> "verify_cross_chain_validity",
                      res |-> verify_cross_chain_validity(
                                  input.chain_proof, source_chain_id,
                                  target_chain_id, input.supported_chains)]
        /\ UNCHANGED <<clock, input, accounts>>

AdvanceVerdictClock ==
    /\ \E t \in VerdictTimes : t > clock /\ clock' = t
    /\ UNCHANGED <<result, input, accounts>>

NextVerdict ==
    \/ PerformVerification
    \/ VerifyCrossChainValidity
    \/ AdvanceVerdictClock

SpecVerdict == InitVerdict /\ [][NextVerdict]_vars

(***************************************************************************)
(* generate_nonce applied to the messages of a sequence of sends (input),  *)
(* one after another; result.res is the sequence of the nonces so far.     *)
(***************************************************************************)
MaxSends == 3   \* messages of a sequence of sends
NonceIds == {"m1", "m2"}
NonceTimes == {ClockStart, ClockStart + 1, ClockStart + 60, ClockStart + 61}

\* one send: the id of the message and the ledger time send_message reads
Sends == [message_id : NonceIds, timestamp : NonceTimes]

\* sequences of sends: the ledger time does not go back
SendSequences ==
    {q \in UNION {[1 .. n -> Sends] : n \in 1 .. MaxSends} :
        \A i \in 1 .. (Len(q) - 1) : q[i].timestamp <= q[i + 1].timestamp}

InitNonce ==
    /\ input \in SendSequences
    /\ clock = ClockStart
    /\ result = [op |-> "none", res |-> <<>>]
    /\ NoInstructions

GenerateNonce ==
    /\ Len(result.res) < Len(input)
    /\ LET message == input[Len(result.res) + 1] IN
       /\ clock' = message.timestamp
       /\ result' = [op |-> "generate_nonce",
                     res |-> Append(result.res,
                                    generate_nonce(message.message_id,
                                                   message.timestamp))]
    /\ UNCHANGED <<input, accounts>>

NextNonce == GenerateNonce

SpecNonce == InitNonce /\ [][NextNonce]_vars

(***************************************************************************)
(* The rolling averages, applied to arguments: statistics that include n   *)
(* samples with the average old_avg, and a new sample (input).             *)
(***************************************************************************)
MaxSamples == 3   \* samples already included in an average
Averages == {0, 60, 90, 3600}
Samples == {0, 60, 61, 3600}

\* with no sample included the average is 0, as in the default states
AverageInputs ==
    {a \in [n : 0 .. MaxSamples, old_avg : Averages, sample : Samples] :
        a.n = 0 => a.old_avg = 0}

InitAverages ==
    /\ input \in AverageInputs
    /\ clock = ClockStart
    /\ result = NoCall
    /\ NoInstructions

\* atomicSwap.rs lines 389-393: redeem counts the swap it completes, then
\* calls update_swap_stats with the duration of the swap
UpdateSwapStats ==
    /\ LET swap_stats == [DefaultSwapState.swap_stats EXCEPT
                             !.total_swaps = input.n + 1,
                             !.completed_swaps = input.n,
                             !.average_swap_time = input.old_avg]
           counted == [swap_stats EXCEPT !.completed_swaps = @ + 1]
       IN result' = [op |-> "update_swap_stats",
                     res |-> update_swap_stats(counted, input.sample).average_swap_time]
    /\ UNCHANGED <<clock, input, accounts>>

\* messagePassing.rs lines 462-467: execute_message updates the statistics
\* of the target chain with the gas used
UpdateReceivedStats ==
    /\ LET chain_stats == [chain_id |-> TargetChain, messages_sent |-> 0,
                           messages_received |-> input.n,
                           average_gas_used |-> input.old_avg]
       IN result' = [op |-> "execute_message",
                     res |-> ReceivedStats(chain_stats, input.sample).average_gas_used]
    /\ UNCHANGED <<clock, input, accounts>>

NextAverages ==
    \/ UpdateSwapStats
    \/ UpdateReceivedStats

SpecAverages == InitAverages /\ [][NextAverages]_vars

(***************************************************************************)
(* Properties.  A property of an instruction is stated of its handler on   *)
(* every reachable state and every input of the model: the handler's       *)
(* ProgramResult (res) and the account data it leaves (data), which the    *)
(* account keeps when res is Ok.                                           *)
(***************************************************************************)
\* the swaps the program finds in the account: those of the state the
\* account deserializes to
Active == swap_data.active_swaps
IsActive(id) == Deserializes(swap_data) /\ ContainsKey(Active, id)

\* the handler whose outcome is r failed as the specification has a call
\* fail: with an error and the account as it was
Rejected(r, sd) == r.res # "Ok" /\ r.data = sd

\* C2: hash-lock safety: a redeem succeeds only with a secret whose sha256 is
\* the secret_hash stored at initiate; a redeem with another secret fails and
\* leaves active_swaps, completed_swaps and swap_stats unchanged.
C2_HashLockSafety ==
    \A s \in Signers, args \in RedeemArgs :
        IsActive(args.swap_id) =>
            LET sw == Active[args.swap_id]
                r == redeem(swap_data, clock, s[1], s[2], args)
            IN /\ r.res = "Ok" => Sha256(args.secret) = sw.secret_hash
               /\ Sha256(args.secret) # sw.secret_hash =>
                    /\ r.res # "Ok"
                    /\ r.data.active_swaps = swap_data.active_swaps
                    /\ r.data.completed_swaps = swap_data.completed_swaps
                    /\ r.data.swap_stats = swap_data.swap_stats
               /\ (s[2] /\ sw.status = "Deposited"
                        /\ Sha256(args.secret) # sw.secret_hash) =>
                    r.res = "InvalidArgument"

\* a redeem has just failed on a Deposited swap: its secret did not match
C2_Witness ==
    /\ result = [op |-> "redeem", res |-> "InvalidArgument"]
    /\ \E id \in DOMAIN Active : Active[id].status = "Deposited"

\* the party a refund request is made for: the initiator when is_initiator,
\* the participant otherwise
RefundParty(sw, args) ==
    IF args.is_initiator THEN Some(sw.initiator) ELSE sw.participant

\* C5: a refund while the time is before expires_at fails, whoever calls it
\* and whatever the status, and leaves the stored state unchanged.
C5_NoRefundBeforeTimeout ==
    \A s \in Signers, args \in RefundArgs :
        (IsActive(args.swap_id) /\ clock < Active[args.swap_id].expires_at) =>
            LET r == refund(swap_data, clock, s[1], s[2], args) IN
            /\ r.res # "Ok"
            /\ s[2] => r.res = "InvalidArgument"
            /\ r.data = swap_data

\* a refund has just failed on a swap that has not reached its timeout
C5_Witness ==
    /\ result = [op |-> "refund", res |-> "InvalidArgument"]
    /\ \E id \in DOMAIN Active : clock < Active[id].expires_at

\* the outcomes, in the current state, of every instruction of the model
\* other than refund
OtherOutcomes ==
    {initialize_swap_state(swap_data, s[2], a) : s \in Signers, a \in AuthorityKeys}
    \cup {initiate_swap(swap_data, clock, s[1], s[2], a) :
            s \in Initiators, a \in InitSwapArgs}
    \cup {participate_swap(swap_data, s[1], s[2], a) :
            s \in Signers, a \in ParticipateSwapArgs}
    \cup {deposit(swap_data, clock, s[1], s[2], a) : s \in Signers, a \in DepositArgs}
    \cup {redeem(swap_data, clock, s[1], s[2], a) : s \in Signers, a \in RedeemArgs}
    \cup {cancel_swap(swap_data, s[1], s[2], a) : s \in Signers, a \in SwapIds}
    \cup {update_fee_rate(swap_data, s[1], s[2], a) : s \in Signers, a \in FeeRates}

\* C6: two-sided refund.  A refund request succeeds only when made by the
\* party it is made for (the initiator's by the initiator, the participant's
\* by the participant).  The swap is refunded (removed from active_swaps, its
\* id appended to completed_swaps, refunded_swaps incremented by one) exactly
\* by the request after which both parties have requested; after one party's
\* request alone the swap stays in active_swaps with its status unchanged.
\* The request flags start false and no other instruction sets them or counts
\* a refund (initialize_swap_state, on an account that does not deserialize,
\* starts the count again from 0).
C6_TwoSidedRefund ==
    /\ \A id \in DOMAIN Active :
          ~(Active[id].refund_initiator /\ Active[id].refund_participant)
    /\ \A s \in Signers, args \in RefundArgs :
          IsActive(args.swap_id) =>
            LET id == args.swap_id
                sw == Active[id]
                r == refund(swap_data, clock, s[1], s[2], args)
                ri == sw.refund_initiator \/ args.is_initiator
                rp == sw.refund_participant \/ ~args.is_initiator
            IN r.res = "Ok" =>
                 /\ s[2]
                 /\ RefundParty(sw, args) = Some(s[1])
                 /\ IF ri /\ rp
                    THEN /\ ~ContainsKey(r.data.active_swaps, id)
                         /\ r.data.completed_swaps =
                               Append(swap_data.completed_swaps, id)
                         /\ r.data.swap_stats.refunded_swaps =
                               swap_data.swap_stats.refunded_swaps + 1
                    ELSE /\ ContainsKey(r.data.active_swaps, id)
                         /\ r.data.active_swaps[id] =
                               [sw EXCEPT !.refund_initiator = ri,
                                          !.refund_participant = rp]
                         /\ r.data.completed_swaps = swap_data.completed_swaps
                         /\ r.data.swap_stats = swap_data.swap_stats
    /\ \A r \in OtherOutcomes :
          /\ r.data.swap_stats.refunded_swaps <= swap_data.swap_stats.refunded_swaps
          /\ \A id \in DOMAIN r.data.active_swaps :
                LET new == r.data.active_swaps[id] IN
                IF ContainsKey(Active, id)
                THEN /\ new.refund_initiator = Active[id].refund_initiator
                     /\ new.refund_participant = Active[id].refund_participant
                ELSE ~new.refund_initiator /\ ~new.refund_participant

\* the second of the two refund requests has just refunded the swap
C6_Witness ==
    /\ result = [op |-> "refund", res |-> "Ok"]
    /\ DOMAIN Active = {}
    /\ swap_data.completed_swaps = <<"s1">>
    /\ swap_data.swap_stats.refunded_swaps = 1

C11_CancelOnlyByAuthority ==
    \A s \in Signers, id \in SwapIds :
        LET r == cancel_swap(swap_data, s[1], s[2], id) IN
        /\ r.res = "Ok" <=> (s[2] /\ s[1] = swap_data.authority /\ IsActive(id))
        /\ r.res = "Ok" =>
              /\ ~ContainsKey(r.data.active_swaps, id)
              /\ r.data.completed_swaps = Append(swap_data.completed_swaps, id)
              /\ r.data = [swap_data EXCEPT
                               !.active_swaps = r.data.active_swaps,
                               !.completed_swaps = r.data.completed_swaps,
                               !.borsh_len = r.data.borsh_len]
        /\ s[1] # swap_data.authority => (r.res # "Ok" /\ r.data = swap_data)

C11_Witness ==
    /\ result = [op |-> "cancel_swap", res |-> "Ok"]
    /\ Active = EmptyMap
    /\ swap_data.completed_swaps # <<>>
    /\ swap_data.swap_stats.completed_swaps = 0
    /\ swap_data.swap_stats.refunded_swaps = 0

\* the outcome of every call of a swap handler other than initialize in the
\* current state
SwapCallOutcomes ==
    {initiate_swap(swap_data, clock, s[1], s[2], a) : s \in Signers, a \in InitSwapArgs}
    \cup {participate_swap(swap_data, s[1], s[2], a) :
              s \in Signers, a \in ParticipateSwapArgs}
    \cup {deposit(swap_data, clock, s[1], s[2], a) : s \in Signers, a \in DepositArgs}
    \cup {redeem(swap_data, clock, s[1], s[2], a) : s \in Signers, a \in RedeemArgs}
    \cup {refund(swap_data, clock, s[1], s[2], a) : s \in Signers, a \in RefundArgs}
    \cup {cancel_swap(swap_data, s[1], s[2], id) : s \in Signers, id \in SwapIds}
    \cup {update_fee_rate(swap_data, s[1], s[2], f) : s \in Signers, f \in FeeRates}

\* the instructions of the swap program that C13 names
SwapInstructions ==
    {"initiate_swap", "participate_swap", "deposit", "redeem", "refund",
     "cancel_swap", "update_fee_rate"}

Chains == verifier_data.supported_chains
Verified == verifier_data.verified_proofs

\* the merkle path of a proof re-derives its root: hashing the transaction
\* hash with each sibling of the path in turn ends at merkle_root
MerklePathCorrect(p) ==
    /\ p.merkle_proof # <<>>
    /\ MerkleFold(p.transaction_hash, p.merkle_proof) = p.merkle_root

SignatureWellFormed(p) ==
    /\ Len(p.verifier_signature) = 65
    /\ \E i \in DOMAIN p.verifier_signature : p.verifier_signature[i] # 0

C18_VerdictIndependentOfTime ==
    \A p \in ChainProofs, t \in VerdictTimes :
        perform_verification(p, Chains, t) = perform_verification(p, Chains, clock)

\* the same proof was verified under two ids at two different ledger times
C18_Witness ==
    /\ DOMAIN Verified = {"p1", "p2"}
    /\ Verified["p1"].chain_proof = Verified["p2"].chain_proof
    /\ Verified["p1"].verified_at # Verified["p2"].verified_at
    /\ Verified["p1"].cross_chain_reference = None
    /\ Verified["p2"].cross_chain_reference = None
    /\ Verified["p1"].verification_result = Verified["p2"].verification_result
    /\ verifier_data.verification_stats.total_verified
         + verifier_data.verification_stats.total_failed = 2

(***************************************************************************)
(* Properties of the message passing program, stated of its handlers on    *)
(* every account they are given (SpecMessageHandlers).                     *)
(***************************************************************************)
Pending == message_data.pending_messages
Delivered == message_data.delivered_messages

\* P holds of the outcome of every call of every instruction but
\* initialize_message_passing on the current state
AllMessageCalls(P(_)) ==
    /\ \A s \in Signers, a \in SendMessageArgs :
          P(send_message(message_data, clock, s[1], s[2], a))
    /\ \A s \in Signers, a \in RelayMessageArgs :
          P(relay_message(message_data, clock, s[1], s[2], a))
    /\ \A s \in Signers, a \in ExecuteMessageArgs :
          P(execute_message(message_data, clock, s[1], s[2], a))
    /\ \A s \in Signers, a \in RegisterRelayerArgs :
          P(register_relayer(message_data, s[1], s[2], a))
    /\ \A s \in Signers, k \in RelayerKeys, b \in BOOLEAN :
          P(update_relayer_status(message_data, s[1], s[2], k, b))
    /\ \A s \in Signers, f \in MessageFeeRates :
          P(update_message_fee_rate(message_data, s[1], s[2], f))
    /\ \A s \in Signers, a \in AddChainMessageConfigArgs :
          P(add_chain_message_config(message_data, s[1], s[2], a))

(***************************************************************************)
(* Properties of several programs, on every reachable state of             *)
(* SpecPrograms.                                                           *)
(***************************************************************************)
\* the outcomes of every initialize call on the current state, for every
\* authority named in the call
SwapInitOutcomes ==
    {initialize_swap_state(swap_data, s[2], a) : s \in Signers, a \in Keys}
MessageInitOutcomes ==
    {initialize_message_passing(message_data, s[2], [authority |-> a, fee_rate |-> f]) :
        s \in Signers, a \in Keys, f \in {0} \cup MessageFeeRates}
VerinodeInitOutcomes == {initialize(storage, a) : a \in Keys}
VerinodeCallOutcomes ==
    {issue_proof(storage, clock, s[1], s[2], EventData, ProofHash) : s \in Signers}
    \cup {verinode_verify_proof(storage, s[1], s[2], id) :
              s \in Signers, id \in VerifyIds}

KeepsMessageAuthority(r) ==
    r.data.authority = message_data.authority /\ r.data.is_initialized

\* C12: the authority is set exactly once.  Before the first successful
\* initialize no authority is stored; once a program is initialised, every
\* initialize call fails (AccountAlreadyInitialized for a signed call of a
\* Solana program, a panic in the Soroban contract) and no call of any
\* operation changes the stored authority or admin.
C12_AuthoritySetOnce ==
    /\ ~swap_data.is_initialized => swap_data.authority = DefaultPubkey
    /\ swap_data.is_initialized =>
          /\ \A r \in SwapInitOutcomes :
                r.res \in {"AccountAlreadyInitialized", "MissingRequiredSignature"}
          /\ \E r \in SwapInitOutcomes : r.res = "AccountAlreadyInitialized"
          /\ \A r \in SwapInitOutcomes \cup SwapCallOutcomes :
                r.data.authority = swap_data.authority /\ r.data.is_initialized
    /\ ~message_data.is_initialized => message_data.authority = DefaultPubkey
    /\ message_data.is_initialized =>
          /\ \A r \in MessageInitOutcomes :
                r.res \in {"AccountAlreadyInitialized", "MissingRequiredSignature"}
          /\ \E r \in MessageInitOutcomes : r.res = "AccountAlreadyInitialized"
          /\ \A r \in MessageInitOutcomes : KeepsMessageAuthority(r)
          /\ AllMessageCalls(KeepsMessageAuthority)
    /\ storage.admin # None =>
          /\ \A r \in VerinodeInitOutcomes : r.res = "Contract already initialized"
          /\ \A r \in VerinodeInitOutcomes \cup VerinodeCallOutcomes :
                r.data.admin = storage.admin
    /\ storage.admin = None =>
          \A r \in VerinodeCallOutcomes : r.data.admin = None

\* C15: the expiry sweep, callable by anyone, moves every Funded swap whose
\* timeout has passed to status Expired and removes it from the active
\* index, leaves every other active swap (an Initiated one in particular)
\* as it was, and a second sweep at the same time processes nothing.
C15_ExpirySweep ==
    LET r == expire_swaps(swap_data, clock)
        again == expire_swaps(r.data, clock) IN
    /\ r.res = "Ok"
    /\ \A id \in DOMAIN Active :
          IF Active[id].status = "Deposited" /\ clock > Active[id].expires_at
          THEN /\ id \notin DOMAIN r.data.active_swaps
               /\ [Active[id] EXCEPT !.status = "Expired"] \in r.expired
          ELSE /\ id \in DOMAIN r.data.active_swaps
               /\ r.data.active_swaps[id] = Active[id]
    /\ \A sw \in r.expired :
          /\ sw.status = "Expired"
          /\ sw.swap_id \in DOMAIN Active
          /\ Active[sw.swap_id].status = "Deposited"
    /\ again.expired = {}
    /\ again.data = r.data

\* a sweep has just expired a funded swap: the active index is empty and the
\* expired counter moved
C15_Witness ==
    /\ result = [op |-> "expire_swaps", res |-> "Ok"]
    /\ swap_data.swap_stats.expired_swaps >= 1
    /\ Active = EmptyMap


\* C21: only active registered relayers can relay: relay_message reaches its
\* write only if the signer is in relayers with is_active = TRUE; a call by an
\* unregistered signer or by a deactivated relayer fails and leaves the
\* state, the message's status and relay_proof in particular, unchanged.
C21_OnlyActiveRelayersRelay ==
    \A s \in Signers, a \in RelayMessageArgs :
        LET r == relay_message(message_data, clock, s[1], s[2], a)
            active == /\ ContainsKey(message_data.relayers, s[1])
                      /\ message_data.relayers[s[1]].is_active
        IN /\ (r.res = "Ok" \/ r.data # message_data) => active
           /\ ~active => Rejected(r, message_data)

\* relay_message has just refused its signer while a message waits: the
\* account is readable and every relayer of the registry is deactivated, so
\* no signer gets past the test of the registry, and the error is the one of
\* that test
C21_Witness ==
    /\ result = [op |-> "relay_message", res |-> "InvalidAccountData"]
    /\ Deserializes(message_data)
    /\ message_data.relayers # EmptyMap
    /\ \A k \in DOMAIN message_data.relayers : ~message_data.relayers[k].is_active
    /\ \E id \in DOMAIN Pending :
          Pending[id].status = "Pending" /\ Pending[id].relay_proof = None

\* a < b for two u64 values kept as their eight big-endian bytes
NonceLess(a, b) ==
    \E i \in 1 .. 8 : a[i] < b[i] /\ \A j \in 1 .. (i - 1) : a[j] = b[j]

BridgeProofs == bridge_storage.proofs

\* C23: verify_target_proof succeeds only on a proof whose source is already
\* verified; called first by the admin on an existing proof it aborts with
\* "Source proof must be verified first" and changes nothing, so in every
\* state target_verification implies source_verification.
C23_SourceBeforeTarget ==
    /\ \A id \in DOMAIN BridgeProofs :
          BridgeProofs[id].target_verification => BridgeProofs[id].source_verification
    /\ \A admin \in BridgeCallers, id \in BridgeProofIds :
          LET r == verify_target_proof(bridge_storage, admin, id) IN
          /\ r.res = "Ok" =>
                /\ ContainsKey(BridgeProofs, id)
                /\ BridgeProofs[id].source_verification
                /\ r.data.proofs[id].target_verification
          /\ (/\ Some(admin) = bridge_storage.admin
              /\ ContainsKey(BridgeProofs, id)
              /\ ~BridgeProofs[id].source_verification) =>
                /\ r.res = "Source proof must be verified first"
                /\ r.data = bridge_storage

\* verify_target_proof has just succeeded on one proof while another proof
\* has neither flag set
C23_Witness ==
    /\ result = [op |-> "verify_target_proof", res |-> "Ok"]
    /\ \E id \in DOMAIN BridgeProofs :
          BridgeProofs[id].source_verification /\ BridgeProofs[id].target_verification
    /\ \E id \in DOMAIN BridgeProofs :
          ~BridgeProofs[id].source_verification /\ ~BridgeProofs[id].target_verification


\* the deposits recorded in the active swaps are the same after the call,
\* for the swaps that are still active
KeepsDeposits(r) ==
    \A id \in DOMAIN Active :
        ContainsKey(r.data.active_swaps, id) =>
            /\ Active[id].initiator_deposit # None =>
                  r.data.active_swaps[id].initiator_deposit = Active[id].initiator_deposit
            /\ Active[id].participant_deposit # None =>
                  r.data.active_swaps[id].participant_deposit =
                      Active[id].participant_deposit

\* C24: deposit is accepted (gets as far as writing the deposit) only from
\* the swap's initiator or its recorded participant, and at most once per
\* party: a deposit by any other signer fails, a second deposit by the same
\* party fails with AccountAlreadyInitialized, both with the account as it
\* was, and no call overwrites or clears a recorded initiator_deposit or
\* participant_deposit of a swap that stays active.
C24_DepositOncePerParty ==
    /\ \A s \in Signers, a \in DepositArgs :
          LET r == deposit(swap_data, clock, s[1], s[2], a)
              id == a.swap_id IN
          /\ (r.res = "Ok" \/ r.data # swap_data) =>
                /\ IsActive(id)
                /\ \/ Active[id].initiator = s[1] /\ Active[id].initiator_deposit = None
                   \/ Active[id].participant = Some(s[1])
                      /\ Active[id].participant_deposit = None
          /\ (s[2] /\ IsActive(id)) =>
                /\ (Active[id].initiator # s[1] /\ Active[id].participant # Some(s[1]))
                      => r.res = "InvalidAccountData" /\ Rejected(r, swap_data)
                /\ (Active[id].initiator = s[1] /\ Active[id].initiator_deposit # None)
                      => r.res = "AccountAlreadyInitialized" /\ Rejected(r, swap_data)
                /\ (/\ Active[id].initiator # s[1]
                    /\ Active[id].participant = Some(s[1])
                    /\ Active[id].participant_deposit # None)
                      => r.res = "AccountAlreadyInitialized" /\ Rejected(r, swap_data)
    /\ \A r \in SwapCallOutcomes : KeepsDeposits(r)

\* a second deposit has just been refused on a swap that holds the deposits
\* of both parties
C24_Witness ==
    /\ result = [op |-> "deposit", res |-> "AccountAlreadyInitialized"]
    /\ \E id \in DOMAIN Active :
          /\ Active[id].initiator_deposit # None
          /\ Active[id].participant_deposit # None


\* the swap id is still active after the call, unfunded as before
StaysUnfunded(r, id) ==
    /\ ContainsKey(r.data.active_swaps, id)
    /\ r.data.active_swaps[id].status = "Initiated"
    /\ r.data.active_swaps[id].participant = None
    /\ r.data.completed_swaps = swap_data.completed_swaps
    /\ r.data.swap_stats.completed_swaps = swap_data.swap_stats.completed_swaps
    /\ r.data.swap_stats.refunded_swaps = swap_data.swap_stats.refunded_swaps

\* C25: an unfunded swap is left dangling.  A swap whose participant is not
\* set has status Initiated; no redeem succeeds on it, and every deposit,
\* redeem and refund call, at any time before or after expires_at, leaves it
\* in active_swaps with status Initiated; the only call that takes it out of
\* active_swaps is a cancel_swap signed by the authority.
C25_UnfundedSwapDangles ==
    \A id \in DOMAIN Active :
        Active[id].participant = None =>
            /\ Active[id].status = "Initiated"
            /\ \A s \in Signers :
                  /\ \A a \in {x \in DepositArgs : x.swap_id = id} :
                        StaysUnfunded(deposit(swap_data, clock, s[1], s[2], a), id)
                  /\ \A a \in {x \in RedeemArgs : x.swap_id = id} :
                        LET r == redeem(swap_data, clock, s[1], s[2], a) IN
                        r.res # "Ok" /\ StaysUnfunded(r, id)
                  /\ \A a \in {x \in RefundArgs : x.swap_id = id} :
                        StaysUnfunded(refund(swap_data, clock, s[1], s[2], a), id)
            /\ \A r \in SwapCallOutcomes :
                  ~ContainsKey(r.data.active_swaps, id) =>
                      \E s \in Signers :
                          /\ s[2] /\ s[1] = swap_data.authority
                          /\ r = cancel_swap(swap_data, s[1], s[2], id)

\* past its timeout an unfunded swap is still active after the initiator's
\* refund call returned Ok
C25_Witness ==
    /\ result = [op |-> "refund", res |-> "Ok"]
    /\ \E id \in DOMAIN Active :
          /\ Active[id].participant = None
          /\ Active[id].refund_initiator
          /\ Active[id].status = "Initiated"
          /\ clock > Active[id].expires_at


MessageStats == message_data.message_stats

\* C27: execute_message succeeds only for a message that is InTransit,
\* which carries the relay proof of a relay_message made since it was last
\* sent.  In the state the call serializes, which the account holds when the
\* call succeeds, the message has left pending_messages, a DeliveredMessage
\* for its id is in delivered_messages and exactly one of
\* message_stats.delivered_messages and message_stats.failed_messages has
\* grown by one, according to the success flag of the execution result; a
\* second execute_message for the id, on the account a successful call
\* leaves, fails and changes nothing.
C27_ExecuteOnlyInTransit ==
    \A s \in Signers, a \in ExecuteMessageArgs :
        LET r == execute_message(message_data, clock, s[1], s[2], a)
            id == a.message_id IN
        /\ (r.res = "Ok" \/ r.data # message_data) =>
            /\ ContainsKey(Pending, id)
            /\ Pending[id].status = "InTransit"
            /\ Pending[id].relay_proof # None
            /\ Pending[id].relay_proof[1].relay_timestamp >= Pending[id].timestamp
            /\ ~ContainsKey(r.data.pending_messages, id)
            /\ ContainsKey(r.data.delivered_messages, id)
            /\ r.data.delivered_messages[id].message_id = id
            /\ r.data.delivered_messages[id].original_message = Pending[id]
            /\ LET success == r.data.delivered_messages[id].execution_result.success
                   stats == r.data.message_stats IN
               /\ stats.delivered_messages =
                      MessageStats.delivered_messages + (IF success THEN 1 ELSE 0)
               /\ stats.failed_messages =
                      MessageStats.failed_messages + (IF success THEN 0 ELSE 1)
        /\ r.res = "Ok" =>
              \A s2 \in Signers, a2 \in {x \in ExecuteMessageArgs : x.message_id = id} :
                  Rejected(execute_message(r.data, clock, s2[1], s2[2], a2),
                           r.data)

\* execute_message has just succeeded: the account holds the delivered
\* message, which is not pending any more, and the count of deliveries
C27_Witness ==
    /\ result = [op |-> "execute_message", res |-> "Ok"]
    /\ \E id \in DOMAIN Delivered :
          /\ ~ContainsKey(Pending, id)
          /\ Delivered[id].execution_result.success
          /\ Delivered[id].delivered_at = clock
    /\ MessageStats.delivered_messages >= 1

Proofs == storage.proofs

\* the proofs stored before the call are stored after it with the same id,
\* issuer and hash
KeepsProofIdentity(r) ==
    \A id \in DOMAIN Proofs :
        /\ ContainsKey(r.data.proofs, id)
        /\ r.data.proofs[id].id = Proofs[id].id
        /\ r.data.proofs[id].issuer = Proofs[id].issuer
        /\ r.data.proofs[id].hash = Proofs[id].hash

\* C31: proof ids of the Verinode contract are sequential: the Nth
\* successful issue_proof returns id N, stores the proof under that id with
\* verified = FALSE and id field N, and get_proof_count then returns N; an id
\* is never reused, and no call changes the id, issuer or hash of a stored
\* proof.
C31_SequentialProofIds ==
    /\ \A s \in Signers :
          LET r == issue_proof(storage, clock, s[1], s[2], EventData, ProofHash) IN
          r.res = "Ok" =>
              /\ r.value = Cardinality(DOMAIN Proofs) + 1
              /\ ~ContainsKey(Proofs, r.value)
              /\ r.data.proofs[r.value].id = r.value
              /\ ~r.data.proofs[r.value].verified
              /\ get_proof_count(r.data) = r.value
    /\ \A r \in VerinodeInitOutcomes \cup VerinodeCallOutcomes : KeepsProofIdentity(r)


\* the proofs whose verified flag is set stay stored with the flag set
KeepsVerified(r) ==
    \A id \in DOMAIN Proofs :
        Proofs[id].verified =>
            ContainsKey(r.data.proofs, id) /\ r.data.proofs[id].verified

\* C32: only the stored admin can verify.  verify_proof called with an
\* address different from the stored admin aborts and leaves every proof
\* unchanged; a verified flag becomes TRUE only through a verify_proof call
\* by the admin on an existing proof id; and once TRUE it never returns to
\* FALSE.
C32_OnlyAdminVerifies ==
    /\ \A s \in Signers, id \in VerifyIds :
          LET r == verinode_verify_proof(storage, s[1], s[2], id) IN
          /\ Some(s[1]) # storage.admin => r.res # "Ok" /\ r.data = storage
          /\ r.res = "Ok" =>
                /\ Some(s[1]) = storage.admin
                /\ ContainsKey(Proofs, id)
                /\ r.data.proofs = [Proofs EXCEPT ![id].verified = TRUE]
    /\ \A r \in VerinodeInitOutcomes :
          \A id \in DOMAIN r.data.proofs :
              r.data.proofs[id].verified =>
                  ContainsKey(Proofs, id) /\ Proofs[id].verified
    /\ \A s \in Signers :
          LET r == issue_proof(storage, clock, s[1], s[2], EventData, ProofHash) IN
          \A id \in DOMAIN r.data.proofs :
              r.data.proofs[id].verified =>
                  ContainsKey(Proofs, id) /\ Proofs[id].verified
    /\ \A r \in VerinodeInitOutcomes \cup VerinodeCallOutcomes : KeepsVerified(r)


\* C34: invariant of the active set: every swap in active_swaps has status
\* Initiated or Deposited, has secret = None, and has status Deposited
\* exactly when its participant is set.
C34_ActiveSetInvariant ==
    \A id \in DOMAIN Active :
        /\ Active[id].status \in {"Initiated", "Deposited"}
        /\ Active[id].secret = None
        /\ Active[id].status = "Deposited" <=> Active[id].participant # None

\* a call has just succeeded on an account that holds a swap with a
\* participant: the first refund of a funded swap, which sets a refund flag
\* and leaves the swap active and Deposited
C34_Witness ==
    /\ result = [op |-> "refund", res |-> "Ok"]
    /\ Deserializes(swap_data)
    /\ \E id \in DOMAIN Active :
          /\ Active[id].status = "Deposited"
          /\ Active[id].participant # None
          /\ Active[id].refund_initiator # Active[id].refund_participant

\* C38: every pending message is Pending or InTransit, and is InTransit
\* exactly when its relay_proof is present, so execute_message always finds
\* the relay proof it reads and records its relayer; every delivered message
\* records as relayer an account of the relayers registry.
C38_RelayProofIffInTransit ==
    /\ \A id \in DOMAIN Pending :
          /\ Pending[id].status \in {"Pending", "InTransit"}
          /\ Pending[id].status = "InTransit" <=> Pending[id].relay_proof # None
    /\ \A s \in Signers, a \in ExecuteMessageArgs :
          LET r == execute_message(message_data, clock, s[1], s[2], a) IN
          (r.res = "Ok" \/ r.data # message_data) =>
              /\ Pending[a.message_id].relay_proof # None
              /\ r.data.delivered_messages[a.message_id].relayer
                     = Pending[a.message_id].relay_proof[1].relayer
    /\ \A id \in DOMAIN Delivered :
          ContainsKey(message_data.relayers, Delivered[id].relayer)

\* execute_message has just succeeded: it has read the relay proof of the
\* message it delivered and recorded the relayer of that proof, who is in
\* the registry
C38_Witness ==
    /\ result = [op |-> "execute_message", res |-> "Ok"]
    /\ \E id \in DOMAIN Delivered :
          /\ ContainsKey(message_data.relayers, Delivered[id].relayer)
          /\ Delivered[id].original_message.status = "InTransit"
          /\ Delivered[id].original_message.relay_proof # None
          /\ Delivered[id].original_message.relay_proof[1].relayer
                 = Delivered[id].relayer

====
